---- MODULE Spec2Model ----
(***************************************************************************)
(* A model of the BalanceAI statement pipeline: the Chase statement parser *)
(* (parsers/chase.py), the transaction model (models/transaction.py), the  *)
(* account model (models/account.py), the JSON stores                      *)
(* (statements/storage.py), the upload_statement and                       *)
(* categorize_transaction tools (servers/link_bank_server.py) and the      *)
(* journal store (journals/storage.py, models/journal.py).                 *)
(*                                                                         *)
(* Representation.                                                         *)
(*   - a string the code inspects character by character (a table cell, a  *)
(*     token of a text line) is a sequence of one-character strings;       *)
(*   - a datetime.date is a record [year, month, day]; NoDate stands for   *)
(*     "no date" (None, or date() raising ValueError);                     *)
(*   - a Decimal is a record [coef, exp] with value coef * 10^exp, so that *)
(*     5 and 5.00 are equal in value and differ in their text;             *)
(*   - an exception is a status string carrying the exception's name.      *)
(***************************************************************************)
EXTENDS Integers, Sequences, FiniteSets, TLC

VARIABLES
    txnFile,    \* data/transactions.json
    acctFile,   \* data/accounts.json
    journalFile,\* data/journals.jsonl: the dictionaries of its lines
    call,       \* the last operation: its name, arguments, outcome and the stores before it
    inp,        \* the input of the pure function under check
    out         \* its result

vars == <<txnFile, acctFile, journalFile, call, inp, out>>

(***************************************************************************)
(* Bounds of the model.                                                    *)
(***************************************************************************)
BaseYear == 2024
YearSpan == 2
Y1 == BaseYear + 1
Y2 == BaseYear + 2

Years == BaseYear..(BaseYear + YearSpan)

(***************************************************************************)
(* datetime.date                                                           *)
(***************************************************************************)
MINYEAR == 1
MAXYEAR == 9999

NoDate == [year |-> 0, month |-> 0, day |-> 0]

IsLeap(y) == (y % 4 = 0) /\ ((y % 100 # 0) \/ (y % 400 = 0))

DaysInMonth(y, m) ==
    IF m = 2 THEN (IF IsLeap(y) THEN 29 ELSE 28)
    ELSE IF m \in {4, 6, 9, 11} THEN 30
    ELSE 31

\* date(y, m, d): the date, or NoDate where the constructor raises ValueError.
date(y, m, d) ==
    IF /\ y >= MINYEAR /\ y <= MAXYEAR
       /\ m >= 1 /\ m <= 12
       /\ d >= 1 /\ d <= DaysInMonth(y, m)
    THEN [year |-> y, month |-> m, day |-> d]
    ELSE NoDate

\* date.__lt__ and date.__le__: calendar order.
DateLt(a, b) ==
    \/ a.year < b.year
    \/ a.year = b.year /\ a.month < b.month
    \/ a.year = b.year /\ a.month = b.month /\ a.day < b.day

DateLe(a, b) == a = b \/ DateLt(a, b)

StatementPeriod(s, e) == [start_date |-> s, end_date |-> e]

(***************************************************************************)
(* str: a string is a sequence of one-character strings.                   *)
(***************************************************************************)
DigitChars == {"0", "1", "2", "3", "4", "5", "6", "7", "8", "9"}

DigitVal(c) ==
    CASE c = "0" -> 0 [] c = "1" -> 1 [] c = "2" -> 2 [] c = "3" -> 3 [] c = "4" -> 4
      [] c = "5" -> 5 [] c = "6" -> 6 [] c = "7" -> 7 [] c = "8" -> 8 [] c = "9" -> 9

DigitChar(n) ==
    CASE n = 0 -> "0" [] n = 1 -> "1" [] n = 2 -> "2" [] n = 3 -> "3" [] n = 4 -> "4"
      [] n = 5 -> "5" [] n = 6 -> "6" [] n = 7 -> "7" [] n = 8 -> "8" [] n = 9 -> "9"

\* s.replace(c, "") for every character c of the set.
RemoveChars(s, set) == SelectSeq(s, LAMBDA ch : ch \notin set)

RECURSIVE LStrip(_)
LStrip(s) == IF s # <<>> /\ Head(s) = " " THEN LStrip(Tail(s)) ELSE s

RECURSIVE RStrip(_)
RStrip(s) ==
    IF s # <<>> /\ s[Len(s)] = " " THEN RStrip(SubSeq(s, 1, Len(s) - 1)) ELSE s

\* s.strip()
Strip(s) == RStrip(LStrip(s))

\* s.startswith(c), s.endswith(c)
StartsWith(s, c) == s # <<>> /\ Head(s) = c
EndsWith(s, c) == s # <<>> /\ s[Len(s)] = c

\* int(s) of a string of digits.
RECURSIVE IntOf(_)
IntOf(s) ==
    IF s = <<>> THEN 0
    ELSE 10 * IntOf(SubSeq(s, 1, Len(s) - 1)) + DigitVal(s[Len(s)])

\* str(n) of a natural number.
RECURSIVE StrOfNat(_)
StrOfNat(n) ==
    IF n < 10 THEN <<DigitChar(n)>>
    ELSE Append(StrOfNat(n \div 10), DigitChar(n % 10))

\* The text of n, zero-padded on the left to at least w characters.
RECURSIVE ZeroPad(_, _)
ZeroPad(s, w) == IF Len(s) >= w THEN s ELSE ZeroPad(<<"0">> \o s, w)

\* " ".join(cells)
RECURSIVE JoinSpace(_)
JoinSpace(cells) ==
    IF cells = <<>> THEN <<>>
    ELSE IF Len(cells) = 1 THEN cells[1]
    ELSE cells[1] \o <<" ">> \o JoinSpace(Tail(cells))

\* The length of the run of digits s starts with.
RECURSIVE DigitRun(_)
DigitRun(s) ==
    IF s # <<>> /\ Head(s) \in DigitChars THEN 1 + DigitRun(Tail(s)) ELSE 0

(***************************************************************************)
(* decimal.Decimal: [sign, coef, exp] is (-1)^sign * coef * 10^exp, the    *)
(* triple of Decimal.as_tuple().                                           *)
(***************************************************************************)
\* The result of Decimal(s) raising decimal.InvalidOperation.
InvalidOperation == [sign |-> 2, coef |-> 0, exp |-> 0]

Dec(sign, coef, exp) == [sign |-> sign, coef |-> coef, exp |-> exp]

RECURSIVE Pow10(_)
Pow10(n) == IF n = 0 THEN 1 ELSE 10 * Pow10(n - 1)

\* Decimal(s) for a string over digits, ".", "-", "+" and blanks: optional sign,
\* digits with at most one point and at least one digit; blanks around are stripped.
DecimalOf(s) ==
    LET t == Strip(s)
        signed == t # <<>> /\ Head(t) \in {"-", "+"}
        body == IF signed THEN Tail(t) ELSE t
        digits == RemoveChars(body, {"."})
        points == Len(body) - Len(digits)
        intlen == DigitRun(body)
    IN  IF /\ digits # <<>>
           /\ \A i \in 1..Len(digits) : digits[i] \in DigitChars
           /\ points <= 1
        THEN Dec(IF signed /\ Head(t) = "-" THEN 1 ELSE 0,
                 IntOf(digits),
                 IF points = 1 THEN -(Len(body) - intlen - 1) ELSE 0)
        ELSE InvalidOperation

\* The integer a * 10^(-e) for a Decimal a whose exponent is at least e.
Scaled(a, e) == (IF a.sign = 1 THEN -1 ELSE 1) * a.coef * Pow10(a.exp - e)

MinExp(a, b) == IF a.exp < b.exp THEN a.exp ELSE b.exp

\* Decimal.__eq__: equality of value (5 == 5.00).
DecEq(a, b) == Scaled(a, MinExp(a, b)) = Scaled(b, MinExp(a, b))

\* Decimal.__add__: the exponent of the sum is the smaller exponent. A zero sum is
\* negative only when both operands are negative zeros.
DecAdd(a, b) ==
    LET e == MinExp(a, b)
        v == Scaled(a, e) + Scaled(b, e)
    IN  IF v < 0 THEN Dec(1, -v, e)
        ELSE IF v > 0 THEN Dec(0, v, e)
        ELSE Dec(IF a.coef = 0 /\ b.coef = 0 /\ a.sign = 1 /\ b.sign = 1 THEN 1 ELSE 0, 0, e)

\* Decimal.__neg__: the negation of a zero is a positive zero.
DecNeg(a) ==
    IF a.coef = 0 THEN Dec(0, 0, a.exp) ELSE Dec(1 - a.sign, a.coef, a.exp)

\* str(d) for an exponent <= 0: the digits with the point -exp places from the right.
DecStr(d) ==
    LET ds == ZeroPad(StrOfNat(d.coef), 1 - d.exp)
        n == Len(ds)
        body == IF d.exp = 0 THEN ds
                ELSE SubSeq(ds, 1, n + d.exp) \o <<".">> \o SubSeq(ds, n + d.exp + 1, n)
    IN  IF d.sign = 1 THEN <<"-">> \o body ELSE body

\* date.isoformat(): YYYY-MM-DD.
IsoFormat(d) ==
    ZeroPad(StrOfNat(d.year), 4) \o <<"-">> \o ZeroPad(StrOfNat(d.month), 2)
        \o <<"-">> \o ZeroPad(StrOfNat(d.day), 2)

\* date.fromisoformat(s) of a string that isoformat wrote.
FromIsoFormat(s) ==
    date(IntOf(SubSeq(s, 1, 4)), IntOf(SubSeq(s, 6, 7)), IntOf(SubSeq(s, 9, 10)))

(***************************************************************************)
(* ChaseParser._infer_transaction_date                                     *)
(***************************************************************************)
InPeriod(c, period) ==
    c # NoDate /\ DateLe(period.start_date, c) /\ DateLe(c, period.end_date)

\* The inference with the end year's candidate tried first.
InferEndYearFirst(month, day, period) ==
    LET c1 == date(period.start_date.year, month, day)
        c2 == date(period.end_date.year, month, day)
    IN  IF InPeriod(c2, period) THEN c2
        ELSE IF InPeriod(c1, period) THEN c1
        ELSE NoDate

InferTransactionDate(month, day, period) ==
    LET c1 == date(period.start_date.year, month, day)
        c2 == date(period.end_date.year, month, day)
    IN  IF InPeriod(c1, period) THEN c1
        ELSE IF period.end_date.year # period.start_date.year /\ InPeriod(c2, period)
             THEN c2
        ELSE NoDate

(***************************************************************************)
(* ChaseParser._parse_statement_period                                     *)
(*                                                                         *)
(* The text is the sequence of its date-range phrases, in text order. A    *)
(* phrase has the shape of exactly one of the four patterns and carries    *)
(* the groups that pattern captures: month names (sname, ename) for        *)
(* patterns 1 and 2, numbers for patterns 3 and 4, and for pattern 3 the   *)
(* number of digits of each year (sylen, eylen).  re.search is the         *)
(* leftmost phrase of the pattern's shape.                                 *)
(***************************************************************************)
NoPeriod == StatementPeriod(NoDate, NoDate)

\* MONTH_NAMES.get(name.lower()): the month's number, 0 (None) for any other word.
MONTH_NAMES(name) ==
    CASE name = "january" -> 1   [] name = "february" -> 2  [] name = "march" -> 3
      [] name = "april" -> 4     [] name = "may" -> 5       [] name = "june" -> 6
      [] name = "july" -> 7      [] name = "august" -> 8    [] name = "september" -> 9
      [] name = "october" -> 10  [] name = "november" -> 11 [] name = "december" -> 12
      [] OTHER -> 0

NoPhrase == [form |-> 0, sname |-> "", ename |-> "", sm |-> 0, em |-> 0,
             sd |-> 0, ed |-> 0, sy |-> 0, ey |-> 0, sylen |-> 0, eylen |-> 0]

\* re.search(pattern<form>, text): the leftmost match, NoPhrase when there is none.
RECURSIVE Search(_, _)
Search(form, text) ==
    IF text = <<>> THEN NoPhrase
    ELSE IF Head(text).form = form THEN Head(text)
    ELSE Search(form, Tail(text))

\* The ValueError of a date constructor leaving the resolver.
ValueErrorRaised == StatementPeriod(NoDate, [year |-> 0, month |-> 0, day |-> 1])

\* The construction of the period without the except clause.
TryPeriodUncaught(s, e) ==
    IF s = NoDate \/ e = NoDate THEN ValueErrorRaised ELSE StatementPeriod(s, e)

\* StatementPeriod(start_date=date(...), end_date=date(...)) inside try/except
\* ValueError: NoPeriod when either constructor raises.
TryPeriod(s, e) ==
    IF s = NoDate \/ e = NoDate THEN NoPeriod ELSE StatementPeriod(s, e)

\* Format 1: "November 25, 2025 through December 19, 2025".
Format1(m) ==
    LET start_month == MONTH_NAMES(m.sname)
        end_month == MONTH_NAMES(m.ename)
    IN  IF start_month # 0 /\ end_month # 0
        THEN TryPeriod(date(m.sy, start_month, m.sd), date(m.ey, end_month, m.ed))
        ELSE NoPeriod

\* Format 2 with the start date always in the stated year.
Format2SameYear(m) ==
    LET start_month == MONTH_NAMES(m.sname)
        end_month == MONTH_NAMES(m.ename)
    IN  IF start_month # 0 /\ end_month # 0
        THEN TryPeriod(date(m.ey, start_month, m.sd), date(m.ey, end_month, m.ed))
        ELSE NoPeriod

\* Format 2: "December 20 - January 23, 2026" (year only at end).
Format2(m) ==
    LET start_month == MONTH_NAMES(m.sname)
        end_month == MONTH_NAMES(m.ename)
        end_year == m.ey
        start_year == IF start_month > end_month THEN end_year - 1 ELSE end_year
    IN  IF start_month # 0 /\ end_month # 0
        THEN TryPeriod(date(start_year, start_month, m.sd), date(end_year, end_month, m.ed))
        ELSE NoPeriod

\* Format 3: "12/20/2025 - 01/23/2026" or "12/20/25 - 01/23/26".
Format3(m) ==
    LET start_year == IF m.sylen = 4 THEN m.sy ELSE 2000 + m.sy
        end_year == IF m.eylen = 4 THEN m.ey ELSE 2000 + m.ey
    IN  TryPeriod(date(start_year, m.sm, m.sd), date(end_year, m.em, m.ed))

\* Format 4: "12/20 - 01/23, 2026" (numeric month/day, year at end).
Format4(m) ==
    LET end_year == m.ey
        start_year == IF m.sm > m.em THEN end_year - 1 ELSE end_year
    IN  TryPeriod(date(start_year, m.sm, m.sd), date(end_year, m.em, m.ed))

\* What the block of one format returns, NoPeriod when it falls through.
FormatBlock(form, text) ==
    LET m == Search(form, text)
    IN  IF m = NoPhrase THEN NoPeriod
        ELSE CASE form = 1 -> Format1(m)
               [] form = 2 -> Format2(m)
               [] form = 3 -> Format3(m)
               [] form = 4 -> Format4(m)

\* The resolver with the numeric forms tried before the month-name forms.
ParsePeriodNumericFirst(text) ==
    IF FormatBlock(3, text) # NoPeriod THEN FormatBlock(3, text)
    ELSE IF FormatBlock(4, text) # NoPeriod THEN FormatBlock(4, text)
    ELSE IF FormatBlock(1, text) # NoPeriod THEN FormatBlock(1, text)
    ELSE IF FormatBlock(2, text) # NoPeriod THEN FormatBlock(2, text)
    ELSE NoPeriod

\* _parse_statement_period(text): NoPeriod stands for None.
ParseStatementPeriod(text) ==
    IF FormatBlock(1, text) # NoPeriod THEN FormatBlock(1, text)
    ELSE IF FormatBlock(2, text) # NoPeriod THEN FormatBlock(2, text)
    ELSE IF FormatBlock(3, text) # NoPeriod THEN FormatBlock(3, text)
    ELSE IF FormatBlock(4, text) # NoPeriod THEN FormatBlock(4, text)
    ELSE NoPeriod

(***************************************************************************)
(* ChaseParser._parse_table_row and _parse_transactions_from_text          *)
(*                                                                         *)
(* A table row is a sequence of cells, a cell a string (None and "" are    *)
(* both the empty string: the row is cleaned with                          *)
(* `str(cell).strip() if cell else ""`).  A raw transaction is             *)
(* [date, description, amount]; NoTxnData stands for None.                 *)
(***************************************************************************)
NoTxnData == [date |-> NoDate, description |-> <<>>, amount |-> InvalidOperation]

TxnData(d, description, amount) ==
    [date |-> d, description |-> description, amount |-> amount]

\* re.match(r"(\d{1,2})/(\d{1,2})", s): <<month, day>>, or <<>> when there is no
\* match. One or two digits, a slash, then one or two digits taken greedily.
DatePrefix(s) ==
    LET n == DigitRun(s)
        rest == SubSeq(s, n + 2, Len(s))
        k == IF DigitRun(rest) >= 2 THEN 2 ELSE DigitRun(rest)
    IN  IF n \in {1, 2} /\ Len(s) > n /\ s[n + 1] = "/" /\ k >= 1
        THEN <<IntOf(SubSeq(s, 1, n)), IntOf(SubSeq(rest, 1, k))>>
        ELSE <<>>

\* The amount of the last cell: "$" and "," removed, parentheses or a leading "-"
\* taken off and remembered, the rest given to Decimal.
TableAmount(cell) ==
    LET amount_str == Strip(RemoveChars(cell, {"$", ","}))
        paren == StartsWith(amount_str, "(") /\ EndsWith(amount_str, ")")
        minus == ~paren /\ StartsWith(amount_str, "-")
        inner == IF paren THEN SubSeq(amount_str, 2, Len(amount_str) - 1)
                 ELSE IF minus THEN Tail(amount_str)
                 ELSE amount_str
        amount == DecimalOf(inner)
    IN  IF amount = InvalidOperation THEN InvalidOperation
        ELSE IF paren \/ minus THEN DecNeg(amount)
        ELSE amount

\* _parse_table_row(row, period) for a row of at least one cell.
ParseTableRow(row, period) ==
    LET cells == [i \in 1..Len(row) |-> Strip(row[i])]
        date_match == DatePrefix(cells[1])
        txn_date == InferTransactionDate(date_match[1], date_match[2], period)
        description == Strip(JoinSpace(SubSeq(cells, 2, Len(cells) - 1)))
        amount == TableAmount(cells[Len(cells)])
    IN  IF date_match = <<>> THEN NoTxnData
        ELSE IF txn_date = NoDate THEN NoTxnData
        ELSE IF description = <<>> THEN NoTxnData
        ELSE IF amount = InvalidOperation THEN NoTxnData
        ELSE TxnData(txn_date, description, amount)

\* The table loop of _parse_transactions: rows of fewer than 3 cells are passed
\* over, the others go to _parse_table_row, and what it returns is kept.
RECURSIVE TableRows(_, _)
TableRows(rows, period) ==
    IF rows = <<>> THEN <<>>
    ELSE LET row == Head(rows)
             txn_data == IF Len(row) < 3 THEN NoTxnData ELSE ParseTableRow(row, period)
         IN  (IF txn_data = NoTxnData THEN <<>> ELSE <<txn_data>>)
                 \o TableRows(Tail(rows), period)

\* `for table in tables: for row in table`: the rows of all tables in order.
RECURSIVE AllRows(_)
AllRows(tables) ==
    IF tables = <<>> THEN <<>> ELSE Head(tables) \o AllRows(Tail(tables))

\* The index of the first blank of s, 0 when it has none; of the last one likewise.
RECURSIVE FirstBlank(_, _)
FirstBlank(s, i) ==
    IF i > Len(s) THEN 0 ELSE IF s[i] = " " THEN i ELSE FirstBlank(s, i + 1)

RECURSIVE LastBlank(_, _)
LastBlank(s, i) ==
    IF i < 1 THEN 0 ELSE IF s[i] = " " THEN i ELSE LastBlank(s, i - 1)

\* re.fullmatch(r"\d{1,2}/\d{1,2}", s)
IsDateToken(s) ==
    LET n == DigitRun(s)
        rest == SubSeq(s, n + 2, Len(s))
    IN  /\ n \in {1, 2}
        /\ Len(s) > n /\ s[n + 1] = "/"
        /\ DigitRun(rest) \in {1, 2}
        /\ DigitRun(rest) = Len(rest)

\* re.fullmatch(r"-?\$?[\d,]+\.\d{2}", s)
IsTextAmount(s) ==
    LET a == IF StartsWith(s, "-") THEN Tail(s) ELSE s
        b == IF StartsWith(a, "$") THEN Tail(a) ELSE a
        n == Len(b)
    IN  /\ n >= 4
        /\ b[n - 2] = "."
        /\ b[n - 1] \in DigitChars /\ b[n] \in DigitChars
        /\ \A i \in 1..(n - 3) : b[i] \in DigitChars \cup {","}

\* One line of the text against
\*   (\d{1,2}/\d{1,2})\s+(.+?)\s+(-?\$?[\d,]+\.\d{2})\s*$
\* The line is stripped; the date is its first blank-separated token, the amount
\* its last, and the description what lies between, of at least one character
\* with a blank on either side.
ParseTextLine(line, period) ==
    LET s == Strip(line)
        i == FirstBlank(s, 1)
        j == LastBlank(s, Len(s))
        date_str == SubSeq(s, 1, i - 1)
        amount_str == SubSeq(s, j + 1, Len(s))
        description == Strip(SubSeq(s, i, j))
        md == DatePrefix(date_str)
        txn_date == InferTransactionDate(md[1], md[2], period)
        amount == DecimalOf(RemoveChars(amount_str, {"$", ","}))
    IN  IF i = 0 \/ j - i < 2 THEN NoTxnData
        ELSE IF ~IsDateToken(date_str) \/ ~IsTextAmount(amount_str) THEN NoTxnData
        ELSE IF txn_date = NoDate THEN NoTxnData
        ELSE IF amount = InvalidOperation THEN NoTxnData
        ELSE TxnData(txn_date, description, amount)

\* _parse_transactions_from_text(text, period): the text is its lines.
RECURSIVE ParseTransactionsFromText(_, _)
ParseTransactionsFromText(lines, period) ==
    IF lines = <<>> THEN <<>>
    ELSE LET txn_data == ParseTextLine(Head(lines), period)
         IN  (IF txn_data = NoTxnData THEN <<>> ELSE <<txn_data>>)
                 \o ParseTransactionsFromText(Tail(lines), period)

(***************************************************************************)
(* sorted() and list.sort(): a stable sort that compares with < alone.     *)
(***************************************************************************)
\* The pair <<key, x>> put into the sorted sequence s of such pairs, behind every
\* pair whose key is not greater.
RECURSIVE InsertSorted(_, _)
InsertSorted(p, s) ==
    IF s = <<>> THEN <<p>>
    ELSE IF DateLt(p[1], Head(s)[1]) THEN <<p>> \o s
    ELSE <<Head(s)>> \o InsertSorted(p, Tail(s))

RECURSIVE SortedPairs(_)
SortedPairs(s) ==
    IF s = <<>> THEN <<>>
    ELSE InsertSorted(s[Len(s)], SortedPairs(SubSeq(s, 1, Len(s) - 1)))

\* The elements of s in the stable order of their dates keys[i].
SortedByDate(s, keys) ==
    LET sorted == SortedPairs([i \in 1..Len(s) |-> <<keys[i], s[i]>>])
    IN  [i \in 1..Len(s) |-> sorted[i][2]]

(***************************************************************************)
(* models/transaction.py                                                   *)
(***************************************************************************)
None == "<None>"

\* The fields of the Transaction dataclass, and those without a default.
TransactionFields ==
    {"id", "account_id", "posting_date", "description", "amount",
     "previous_balance", "new_balance", "category", "transaction_date"}

TransactionRequired ==
    {"id", "account_id", "posting_date", "description", "amount",
     "previous_balance", "new_balance"}

\* Transaction(**kw) raising TypeError: an unexpected keyword, or a required
\* argument missing.
NoTransaction ==
    [id |-> <<>>, account_id |-> "", posting_date |-> NoDate, description |-> <<>>,
     amount |-> InvalidOperation, previous_balance |-> InvalidOperation,
     new_balance |-> InvalidOperation, category |-> None, transaction_date |-> NoDate]

\* The dataclass's generated __init__ applied to keyword arguments.
TransactionInit(kw) ==
    IF DOMAIN kw \subseteq TransactionFields /\ TransactionRequired \subseteq DOMAIN kw
    THEN [f \in TransactionFields |->
            IF f \in DOMAIN kw THEN kw[f]
            ELSE IF f = "category" THEN None ELSE NoDate]
    ELSE NoTransaction

\* Transaction.generate_id: the hash of "account_id|date|description|amount". The
\* hash is taken to be one-to-one on the formatted text, which is kept as its
\* four parts.
GenerateId(account_id, txn_date, description, amount) ==
    <<account_id, IsoFormat(txn_date), description, DecStr(amount)>>

\* Transaction.to_dict
TransactionToDict(t) ==
    [id |-> t.id, account_id |-> t.account_id,
     posting_date |-> IsoFormat(t.posting_date),
     description |-> t.description,
     amount |-> DecStr(t.amount),
     previous_balance |-> DecStr(t.previous_balance),
     new_balance |-> DecStr(t.new_balance),
     category |-> t.category,
     transaction_date |->
         IF t.transaction_date # NoDate THEN IsoFormat(t.transaction_date) ELSE <<>>]

\* Transaction.from_dict
TransactionFromDict(d) ==
    [id |-> d.id, account_id |-> d.account_id,
     posting_date |-> FromIsoFormat(d.posting_date),
     description |-> d.description,
     amount |-> DecimalOf(d.amount),
     previous_balance |-> DecimalOf(d.previous_balance),
     new_balance |-> DecimalOf(d.new_balance),
     category |-> d.category,
     transaction_date |->
         IF d.transaction_date # <<>> THEN FromIsoFormat(d.transaction_date) ELSE NoDate]

(***************************************************************************)
(* models/account.py                                                       *)
(***************************************************************************)
\* A value of the enum AccountType, and a plain str in its place.
AccountTypeValues == {"debit", "credit", "saving", "investment"}

AccountType(v) == [cls |-> "AccountType", value |-> v]
PlainStr(v) == [cls |-> "str", value |-> v]

\* Decimal-typed None (Account.balance).
NoneDecimal == Dec(3, 0, 0)

Account(id, account_type, balance, categories) ==
    [id |-> id, bank |-> "chase", account_type |-> account_type,
     balance |-> balance, categories |-> categories]

\* Account.to_dict raises AttributeError when account_type has no .value.
AccountToDictRaises(a) == a.account_type.cls # "AccountType"

\* Account.to_dict
AccountToDict(a) ==
    [id |-> a.id, bank |-> a.bank, account_type |-> a.account_type.value,
     balance |-> IF a.balance # NoneDecimal THEN DecStr(a.balance) ELSE <<>>,
     categories |-> a.categories]

\* Account.from_dict of a dictionary that to_dict wrote.
AccountFromDict(d) ==
    [id |-> d.id, bank |-> d.bank, account_type |-> AccountType(d.account_type),
     balance |-> IF d.balance # <<>> THEN DecimalOf(d.balance) ELSE NoneDecimal,
     categories |-> d.categories]

(***************************************************************************)
(* ChaseParser.parse                                                       *)
(*                                                                         *)
(* A document is what the parser's patterns find in the extracted text and *)
(* tables:                                                                 *)
(*   account_number  the four digits after "Account Number", "" if none    *)
(*   credit_card, savings   whether the text holds these words             *)
(*   beginning   the figure after "Beginning Balance", <<>> if none        *)
(*   ending      the figure after "Ending Balance", <<>> if none           *)
(*   period      the date-range phrases of the text                        *)
(*   tables      the extracted tables, each a sequence of rows             *)
(*   lines       the lines of the text that may hold a transaction         *)
(***************************************************************************)
\* _parse_account_info(text)
ParseAccountInfo(doc) ==
    LET account_id == IF doc.account_number # "" THEN doc.account_number ELSE "0000"
        account_type == IF doc.credit_card THEN "credit_card"
                        ELSE IF doc.savings THEN "savings"
                        ELSE "checking"
        beginning_balance ==
            IF doc.beginning # <<>> THEN DecimalOf(RemoveChars(doc.beginning, {","}))
            ELSE Dec(0, 0, 0)
    IN  [account |-> Account(account_id, PlainStr(account_type), NoneDecimal, <<>>),
         beginning_balance |-> beginning_balance]

\* The fallback period without the January/February rule.
FallbackCurrentYear(today) ==
    StatementPeriod(date(today.year, 1, 1), date(today.year, 12, 31))

\* The period used when the text states none, from date.today().
FallbackPeriod(today) ==
    IF today.month <= 2
    THEN StatementPeriod(date(today.year - 1, 1, 1), date(today.year, 12, 31))
    ELSE StatementPeriod(date(today.year, 1, 1), date(today.year, 12, 31))

\* The fallback period whatever the text states.
PeriodOfToday(found, today) == FallbackPeriod(today)

\* The statement period used: the one found in the text, else the fallback.
PeriodOr(found, today) == IF found = NoPeriod THEN FallbackPeriod(today) ELSE found

\* The variable period of _parse_transactions once the fallback has run.
PeriodUsed(text, today) == PeriodOr(ParseStatementPeriod(text), today)

\* The text lines read whatever the tables gave, their rows added to the rows of
\* the tables.
TablesAndText(from_tables, lines, period) ==
    from_tables \o ParseTransactionsFromText(lines, period)

\* The text lines are read only when the tables gave no transaction.
TablesOrText(from_tables, lines, period) ==
    IF from_tables = <<>> THEN ParseTransactionsFromText(lines, period) ELSE from_tables

\* raw_transactions.sort(key=lambda t: t["date"])
SortRaw(raw) == SortedByDate(raw, [i \in 1..Len(raw) |-> raw[i].date])

\* The raw transactions of a document under a statement period, as extracted.
Extracted(doc, period) ==
    TablesOrText(TableRows(AllRows(doc.tables), period), doc.lines, period)

\* The raw transactions of a document, in date order: table rows first, the text
\* lines only when the tables gave none.
RawTransactions(doc, today) ==
    SortRaw(Extracted(doc, PeriodUsed(doc.period, today)))

\* The keyword arguments the running-balance loop hands to Transaction(...), one
\* record per raw transaction.
RECURSIVE RunningBalance(_, _, _)
RunningBalance(raw, account_id, running_balance) ==
    IF raw = <<>> THEN <<>>
    ELSE LET txn_data == Head(raw)
             previous_balance == running_balance
             new_balance == DecAdd(previous_balance, txn_data.amount)
         IN  << [id |-> GenerateId(account_id, txn_data.date,
                                   txn_data.description, txn_data.amount),
                 account_id |-> account_id,
                 date |-> txn_data.date,
                 description |-> txn_data.description,
                 amount |-> txn_data.amount,
                 previous_balance |-> previous_balance,
                 new_balance |-> new_balance] >>
                 \o RunningBalance(Tail(raw), account_id, new_balance)

\* The Transaction(...) calls of the loop: it ends with the first one that raises.
Constructed(kws) ==
    IF \E i \in 1..Len(kws) : TransactionInit(kws[i]) = NoTransaction
    THEN [status |-> "TypeError", transactions |-> <<>>]
    ELSE [status |-> "ok", transactions |-> [i \in 1..Len(kws) |-> TransactionInit(kws[i])]]

\* _parse_transactions
ParseTransactions(doc, account_id, beginning_balance, today) ==
    Constructed(RunningBalance(RawTransactions(doc, today), account_id, beginning_balance))

\* What stands for the account and the result when parse raises.
NoAccount == Account("", PlainStr(""), NoneDecimal, <<>>)

NoResult == [status |-> "none", account |-> NoAccount, transactions |-> <<>>]

Raised(exception) == [status |-> exception, account |-> NoAccount, transactions |-> <<>>]

\* What parse returns or raises once _parse_transactions has run.
Returned(account, parsed) ==
    IF parsed.status # "ok" THEN Raised(parsed.status)
    ELSE [status |-> "ok", account |-> account, transactions |-> parsed.transactions]

\* parse after _parse_account_info: Decimal(...) raising ends it.
ParseWith(doc, today, info) ==
    IF info.beginning_balance = InvalidOperation THEN Raised("InvalidOperation")
    ELSE Returned(info.account,
                  ParseTransactions(doc, info.account.id, info.beginning_balance, today))

\* parse(file_path): the status is "ok" or the name of the exception raised.
Parse(doc, today) == ParseWith(doc, today, ParseAccountInfo(doc))

(***************************************************************************)
(* The transactions the storage functions are called with                  *)
(***************************************************************************)
MaxBatch == 2

\* A transaction as the parser is to build it: the id generated from the four
\* fields, the new balance previous_balance + amount.
Txn(account_id, posting_date, description, amount, previous_balance) ==
    TransactionInit(
        [id |-> GenerateId(account_id, posting_date, description, amount),
         account_id |-> account_id, posting_date |-> posting_date,
         description |-> description, amount |-> amount,
         previous_balance |-> previous_balance,
         new_balance |-> DecAdd(previous_balance, amount)])

\* The transactions the storage functions are called with, per account. For
\* account 1234 the second one has the id and the date of the first and other
\* balances, the third one an earlier date.
Universe(account_id) ==
    IF account_id = "1234"
    THEN { Txn("1234", date(Y1, 12, 21), <<"A", "M", "Z">>, Dec(1, 5000, -2), Dec(0, 100000, -2)),
           Txn("1234", date(Y1, 12, 21), <<"A", "M", "Z">>, Dec(1, 5000, -2), Dec(0, 0, 0)),
           Txn("1234", date(Y1, 12, 5), <<"P", "A", "Y">>, Dec(0, 200, 0), Dec(0, 95000, -2)) }
    ELSE { Txn(account_id, date(Y2, 1, 5), <<"P", "A", "Y">>, Dec(0, 20000, -2), Dec(0, 0, 0)) }

StoredAccounts == {"1234", "5678"}

\* to_dict and from_dict tabulated on the transactions above; the functions
\* themselves are applied to any other transaction.
ToDictTable ==
    [t \in UNION {Universe(a) : a \in StoredAccounts} |-> TransactionToDict(t)]

FromDictTable ==
    [d \in {ToDictTable[t] : t \in DOMAIN ToDictTable} |-> TransactionFromDict(d)]

ToDict(t) == IF t \in DOMAIN ToDictTable THEN ToDictTable[t] ELSE TransactionToDict(t)

FromDict(d) == IF d \in DOMAIN FromDictTable THEN FromDictTable[d] ELSE TransactionFromDict(d)

(***************************************************************************)
(* statements/storage.py                                                   *)
(*                                                                         *)
(* A file is [state, data]: "absent" (never written), "json" (data is the  *)
(* dictionary json.dump wrote) or "empty" (open(path, "w") truncated it    *)
(* and the dump raised before writing: json.load of it raises              *)
(* JSONDecodeError).                                                       *)
(***************************************************************************)
EmptyDict == [k \in {} |-> <<>>]

AbsentFile == [state |-> "absent", data |-> EmptyDict]
EmptyFile == [state |-> "empty", data |-> EmptyDict]
JsonFile(d) == [state |-> "json", data |-> d]

\* d[k] = v
Put(d, k, v) == [x \in DOMAIN d \cup {k} |-> IF x = k THEN v ELSE d[x]]

\* d.get(k, [])
GetList(d, k) == IF k \in DOMAIN d THEN d[k] ELSE <<>>

\* json.load(f) raises on a file holding nothing.
LoadRaises(file) == file.state = "empty"

\* _load_all_transactions() of a file that can be read.
LoadAllTransactions(file) ==
    IF file.state = "absent" THEN EmptyDict
    ELSE [a \in DOMAIN file.data |->
            [i \in 1..Len(file.data[a]) |-> FromDict(file.data[a][i])]]

\* _save_all_transactions(all_transactions): the file it writes.
SaveAllTransactions(all_transactions) ==
    JsonFile([a \in DOMAIN all_transactions |->
                [i \in 1..Len(all_transactions[a]) |->
                    ToDict(all_transactions[a][i])]])

\* load_transactions_by_account(account_id)
LoadTransactionsByAccount(file, account_id) ==
    GetList(LoadAllTransactions(file), account_id)

PostingDates(txns) == [i \in 1..Len(txns) |-> txns[i].posting_date]

\* The merge without the sort.
MergeUnsorted(existing, transactions) ==
    LET existing_ids == {existing[i].id : i \in 1..Len(existing)}
        new_transactions == SelectSeq(transactions, LAMBDA t : t.id \notin existing_ids)
    IN  [account_transactions |-> existing \o new_transactions,
         added |-> Len(new_transactions)]

\* The merge without the filter on the stored ids.
MergeKeepingDuplicates(existing, transactions) ==
    LET new_transactions == transactions
        merged == existing \o new_transactions
    IN  [account_transactions |-> SortedByDate(merged, PostingDates(merged)),
         added |-> Len(new_transactions)]

\* The merge of save_transactions_by_account: the incoming transactions whose id is
\* not stored yet are added, and the whole is sorted by posting date.
Merge(existing, transactions) ==
    LET existing_ids == {existing[i].id : i \in 1..Len(existing)}
        new_transactions == SelectSeq(transactions, LAMBDA t : t.id \notin existing_ids)
        merged == existing \o new_transactions
    IN  [account_transactions |-> SortedByDate(merged, PostingDates(merged)),
         added |-> Len(new_transactions)]

\* The end of save_transactions_by_account: the dictionary with the account's
\* merged list is saved, and the list and the count are returned.
SaveMerged(all_transactions, account_id, merge) ==
    [file |-> SaveAllTransactions(
                  Put(all_transactions, account_id, merge.account_transactions)),
     account_transactions |-> merge.account_transactions,
     added |-> merge.added]

\* save_transactions_by_account once the dictionary is loaded.
SaveInto(all_transactions, account_id, transactions) ==
    SaveMerged(all_transactions, account_id,
               Merge(GetList(all_transactions, account_id), transactions))

\* save_transactions_by_account(account_id, transactions) on a file that can be
\* read: the file it writes and the pair it returns.
SaveTransactionsByAccount(file, account_id, transactions) ==
    SaveInto(LoadAllTransactions(file), account_id, transactions)

\* load_accounts() of a file that can be read.
LoadAccounts(file) ==
    IF file.state = "absent" THEN EmptyDict
    ELSE [a \in DOMAIN file.data |-> AccountFromDict(file.data[a])]

\* The with block of save_account: the file is opened for writing, and so
\* truncated, before the accounts are serialized.
DumpAccounts(accounts) ==
    IF \E a \in DOMAIN accounts : AccountToDictRaises(accounts[a])
    THEN [status |-> "AttributeError", file |-> EmptyFile]
    ELSE [status |-> "ok",
          file |-> JsonFile([a \in DOMAIN accounts |-> AccountToDict(accounts[a])])]

\* save_account(account): the exception it raises ("ok" for none) and the file it
\* leaves.
SaveAccount(file, account) ==
    IF LoadRaises(file) THEN [status |-> "JSONDecodeError", file |-> file]
    ELSE DumpAccounts(Put(LoadAccounts(file), account.id, account))

\* The place of the first transaction of txns with the id, 0 when there is none.
FirstIndex(txns, transaction_id) ==
    IF \E i \in 1..Len(txns) : txns[i].id = transaction_id
    THEN CHOOSE i \in 1..Len(txns) :
             /\ txns[i].id = transaction_id
             /\ \A j \in 1..(i - 1) : txns[j].id # transaction_id
    ELSE 0

\* The accounts whose list holds a transaction with the id.
Holders(all_transactions, transaction_id) ==
    {a \in DOMAIN all_transactions : FirstIndex(all_transactions[a], transaction_id) # 0}

\* The loop over updates.items(): setattr for the keys the transaction has.
SetAttrs(txn, updates) ==
    [f \in TransactionFields |-> IF f \in DOMAIN updates THEN updates[f] ELSE txn[f]]

\* The transaction at place i of the list of account a is updated and the whole
\* dictionary saved.
UpdateAt(all_transactions, a, i, updates) ==
    [returned |-> TRUE,
     file |-> SaveAllTransactions(
                  [all_transactions EXCEPT ![a][i] = SetAttrs(@, updates)])]

\* update_transaction once the dictionary is loaded: the first transaction with
\* the id is updated; with none nothing is saved and False returned. An id is held
\* by one account at most, so the order of the accounts does not matter.
UpdateIn(file, all_transactions, transaction_id, updates, holders) ==
    IF holders = {} THEN [returned |-> FALSE, file |-> file]
    ELSE UpdateAt(all_transactions, CHOOSE a \in holders : TRUE,
                  FirstIndex(all_transactions[CHOOSE a \in holders : TRUE], transaction_id),
                  updates)

\* update_transaction(transaction_id, **updates) on a file that can be read.
UpdateTransaction(file, transaction_id, updates) ==
    UpdateIn(file, LoadAllTransactions(file), transaction_id, updates,
             Holders(LoadAllTransactions(file), transaction_id))

(***************************************************************************)
(* servers/link_bank_server.py                                             *)
(***************************************************************************)
\* The record of the last call, before any call.
NoCall ==
    [op |-> "none", status |-> "none", account_id |-> "", batch |-> <<>>,
     returned |-> <<>>, added |-> 0, repeat |-> FALSE,
     pre_txn |-> AbsentFile, pre_acct |-> AbsentFile]

\* The account's balance becomes the new balance of the last transaction stored.
WithBalance(account, account_transactions) ==
    IF account_transactions # <<>>
    THEN [account EXCEPT
            !.balance = account_transactions[Len(account_transactions)].new_balance]
    ELSE account

\* What upload_statement leaves and raises once both saves have run.
Uploaded(parsed, saved, stored) ==
    [status |-> stored.status, txn_file |-> saved.file, acct_file |-> stored.file,
     account_id |-> parsed.account.id, transactions |-> parsed.transactions,
     account_transactions |-> saved.account_transactions, added |-> saved.added]

\* upload_statement after the transactions are saved: the account is saved.
UploadAccount(acct_file, parsed, saved) ==
    Uploaded(parsed, saved,
             SaveAccount(acct_file, WithBalance(parsed.account, saved.account_transactions)))

\* upload_statement(file_path, bank), given what ChaseParser().parse(file_path)
\* came to: the exception it raises ("ok" for none), the two files as it leaves
\* them, and what save_transactions_by_account was given and returned. The
\* transactions are saved first, the account after them.
UploadStatement(txn_file, acct_file, parsed) ==
    IF parsed.status # "ok"
    THEN [status |-> parsed.status, txn_file |-> txn_file, acct_file |-> acct_file,
          account_id |-> "", transactions |-> <<>>,
          account_transactions |-> <<>>, added |-> 0]
    ELSE UploadAccount(acct_file, parsed,
             SaveTransactionsByAccount(txn_file, parsed.account.id, parsed.transactions))

\* HashGenerator.generate_hash(f"{bank.value}:{account_type.value}"), taken to be
\* one-to-one: the account type names the account.
AccountIdOf(account_type) ==
    CASE account_type = "debit" -> "chase:debit"
      [] account_type = "credit" -> "chase:credit"
      [] account_type = "saving" -> "chase:saving"
      [] account_type = "investment" -> "chase:investment"

\* create_account(bank, account_type, balance, categories): the account it saves.
\* balance is the text str(balance) of the float given, <<>> for None.
CreatedAccount(account_type, balance) ==
    Account(AccountIdOf(account_type), AccountType(account_type),
            IF balance # <<>> THEN DecimalOf(balance) ELSE NoneDecimal, <<>>)

\* constants.py: the names of DEFAULT_CATEGORIES, in order.
DEFAULT_CATEGORIES ==
    << [name |-> "income", description |-> "Salary, wages, direct deposits, and other income"],
       [name |-> "transfer", description |-> "Transfers between accounts"],
       [name |-> "groceries", description |-> "Grocery stores and supermarkets"],
       [name |-> "dining", description |-> "Restaurants, cafes, and food delivery"],
       [name |-> "utilities", description |-> "Electric, gas, water, internet, and phone bills"],
       [name |-> "rent", description |-> "Rent and mortgage payments"],
       [name |-> "transportation", description |-> "Gas, public transit, rideshare, and parking"],
       [name |-> "entertainment", description |-> "Streaming services, movies, games, and events"],
       [name |-> "shopping", description |-> "Retail purchases, clothing, and electronics"],
       [name |-> "health", description |-> "Medical, dental, pharmacy, and fitness"],
       [name |-> "travel", description |-> "Flights, hotels, and travel expenses"],
       [name |-> "subscriptions", description |-> "Recurring subscription services"],
       [name |-> "fees", description |-> "Bank fees, service charges, and penalties"],
       [name |-> "other", description |-> "Transactions that don't fit other categories"] >>

\* {c.name for c in categories}
Names(categories) == {categories[i].name : i \in 1..Len(categories)}

\* acct.categories or DEFAULT_CATEGORIES
CategoriesOr(categories) == IF categories # <<>> THEN categories ELSE DEFAULT_CATEGORIES

\* A result of categorize_transaction that is an error: nothing was written.
ErrorResult(file, message) == [result |-> "error", message |-> message,
                               category |-> None, file |-> file]

\* The end of categorize_transaction, given what update_transaction returned.
Categorized(file, category, updated) ==
    IF ~updated.returned THEN ErrorResult(file, "Failed to update transaction")
    ELSE [result |-> "success", message |-> "", category |-> category,
          file |-> updated.file]

\* The end of categorize_transaction without any test on the category.
StoreAnyCategory(file, txn, valid_names, category) ==
    Categorized(file, category, UpdateTransaction(file, txn.id, [category |-> category]))

\* categorize_transaction with a category given: it must be one of valid_names.
StoreCategory(file, txn, valid_names, category) ==
    IF category \notin valid_names
    THEN ErrorResult(file, "Category not found in account categories")
    ELSE Categorized(file, category,
                     UpdateTransaction(file, txn.id, [category |-> category]))

\* categorize_transaction with no category given. answer is what came of the
\* Bedrock call: raises when the call, json.loads or result.get raised, else
\* category, the value of result.get("category", "").
AiCategory(file, txn, valid_names, answer) ==
    IF answer.raises THEN ErrorResult(file, "AI categorization failed")
    ELSE IF answer.category \notin valid_names
    THEN ErrorResult(file, "AI returned invalid category")
    ELSE Categorized(file, answer.category,
                     UpdateTransaction(file, txn.id, [category |-> answer.category]))

\* categorize_transaction once the two dictionaries are converted.
CategorizeWith(file, acct, txn, category, answer) ==
    IF category # None
    THEN StoreCategory(file, txn, Names(acct.categories), category)
    ELSE AiCategory(file, txn, Names(CategoriesOr(acct.categories)), answer)

\* The tool categorize_transaction(account, transaction, category): the result it
\* returns and the transactions file it leaves.
CategorizeTransaction(file, account, transaction, category, answer) ==
    CategorizeWith(file, AccountFromDict(account), FromDict(transaction), category, answer)

(***************************************************************************)
(* models/journal.py                                                       *)
(***************************************************************************)
\* The values of the enum JournalAccount.
JournalAccountValues ==
    {"cash", "accounts_payable", "accounts_receivable", "general", "sales",
     "equipment", "wage", "land"}

JournalEntry(journal_entry_id, entry_date, account, description, debit, credit) ==
    [journal_entry_id |-> journal_entry_id, date |-> entry_date, account |-> account,
     description |-> description, debit |-> debit, credit |-> credit]

\* JournalEntry.to_dict
JournalEntryToDict(e) ==
    [journal_entry_id |-> e.journal_entry_id, date |-> IsoFormat(e.date),
     account |-> e.account, description |-> e.description,
     debit |-> DecStr(e.debit), credit |-> DecStr(e.credit)]

\* JournalEntry.from_dict of a dictionary that to_dict wrote.
JournalEntryFromDict(d) ==
    [journal_entry_id |-> d.journal_entry_id, date |-> FromIsoFormat(d.date),
     account |-> d.account, description |-> d.description,
     debit |-> DecimalOf(d.debit), credit |-> DecimalOf(d.credit)]

Journal(account, description, start_date, end_date, journal_id, entries) ==
    [account |-> account, description |-> description, start_date |-> start_date,
     end_date |-> end_date, journal_id |-> journal_id, entries |-> entries]

\* Journal.to_dict raises when Account.to_dict does.
JournalToDictRaises(j) == AccountToDictRaises(j.account)

\* Journal.to_dict
JournalToDict(j) ==
    [journal_id |-> j.journal_id, account |-> AccountToDict(j.account),
     description |-> j.description,
     start_date |-> IsoFormat(j.start_date), end_date |-> IsoFormat(j.end_date),
     entries |-> [i \in 1..Len(j.entries) |-> JournalEntryToDict(j.entries[i])]]

\* Journal.from_dict of a dictionary that to_dict wrote.
JournalFromDict(d) ==
    [account |-> AccountFromDict(d.account), description |-> d.description,
     start_date |-> FromIsoFormat(d.start_date), end_date |-> FromIsoFormat(d.end_date),
     journal_id |-> d.journal_id,
     entries |-> [i \in 1..Len(d.entries) |-> JournalEntryFromDict(d.entries[i])]]

(***************************************************************************)
(* journals/storage.py                                                     *)
(*                                                                         *)
(* The file journals.jsonl is the sequence of the dictionaries of its      *)
(* lines; a file that does not exist yet and an empty one read the same.   *)
(***************************************************************************)
\* load_journals()
LoadJournals(file) == [i \in 1..Len(file) |-> JournalFromDict(file[i])]

\* save_journal opening the file with "w": the line replaces the file.
SaveJournalOverwriting(file, journal) ==
    IF JournalToDictRaises(journal) THEN [status |-> "AttributeError", file |-> <<>>]
    ELSE [status |-> "ok", file |-> <<JournalToDict(journal)>>]

\* save_journal(journal): a line is appended, unless to_dict raises.
SaveJournal(file, journal) ==
    IF JournalToDictRaises(journal) THEN [status |-> "AttributeError", file |-> file]
    ELSE [status |-> "ok", file |-> Append(file, JournalToDict(journal))]

\* The number of journals at the head of the list whose to_dict does not raise.
RECURSIVE Writable(_)
Writable(journals) ==
    IF journals = <<>> \/ JournalToDictRaises(Head(journals)) THEN 0
    ELSE 1 + Writable(Tail(journals))

\* _save_all_journals(journals): the file is opened for writing, and so emptied,
\* and the journals are written one line after the other until to_dict raises.
SaveAllJournals(journals) ==
    [status |-> IF Writable(journals) = Len(journals) THEN "ok" ELSE "AttributeError",
     file |-> [i \in 1..Writable(journals) |-> JournalToDict(journals[i])]]

\* The place of the first journal with the id, 0 when there is none.
FirstJournal(journals, journal_id) ==
    IF \E i \in 1..Len(journals) : journals[i].journal_id = journal_id
    THEN CHOOSE i \in 1..Len(journals) :
             /\ journals[i].journal_id = journal_id
             /\ \A j \in 1..(i - 1) : journals[j].journal_id # journal_id
    ELSE 0

\* update_journal once the journals are loaded and the place i found, replacing
\* every journal with the id.
ReplaceEvery(file, journals, updated, i) ==
    IF i = 0 THEN [status |-> "ValueError", file |-> file]
    ELSE SaveAllJournals([k \in 1..Len(journals) |->
                             IF journals[k].journal_id = updated.journal_id
                             THEN updated ELSE journals[k]])

\* update_journal once the journals are loaded and the place i of the first one
\* with the id found (0 for none).
ReplaceAt(file, journals, updated, i) ==
    IF i = 0 THEN [status |-> "ValueError", file |-> file]
    ELSE SaveAllJournals([journals EXCEPT ![i] = updated])

\* update_journal(updated): the exception it raises ("ok" for none) and the file
\* it leaves.
UpdateJournal(file, updated) ==
    ReplaceAt(file, LoadJournals(file), updated,
              FirstJournal(LoadJournals(file), updated.journal_id))

(***************************************************************************)
(* Specification SpecInfer: _infer_transaction_date applied to a month, a  *)
(* day (two-digit numbers, as the \d{1,2} groups deliver them) and a       *)
(* statement period.                                                       *)
(***************************************************************************)
PeriodDays == {<<1, 1>>, <<1, 23>>, <<2, 28>>, <<11, 25>>, <<12, 20>>, <<12, 31>>}

PeriodDates == {date(y, md[1], md[2]) : y \in Years, md \in PeriodDays}

Periods == {StatementPeriod(s, e) : s \in PeriodDates, e \in PeriodDates}

InferMonths == {0, 1, 2, 6, 11, 12, 13}
InferDays == {0, 1, 5, 15, 23, 29, 30, 31, 32}

InferInputs ==
    [month : InferMonths, day : InferDays, period : Periods]

InitInfer ==
    /\ txnFile = <<>>
    /\ acctFile = <<>>
    /\ journalFile = <<>>
    /\ call = NoCall
    /\ inp \in InferInputs
    /\ out = [done |-> FALSE, val |-> NoDate]

ApplyInfer ==
    /\ ~out.done
    /\ out' = [done |-> TRUE, val |-> InferTransactionDate(inp.month, inp.day, inp.period)]
    /\ UNCHANGED <<txnFile, acctFile, journalFile, call, inp>>

NextInfer == ApplyInfer

SpecInfer == InitInfer /\ [][NextInfer]_vars

\* The position of a date on the calendar line, for comparing dates.
Ordinal(c) == c.year * 10000 + c.month * 100 + c.day

\* The candidate of year y for the input: the date y-month-day when the calendar has
\* it and it lies within the period, NoDate otherwise.
Candidate(y) ==
    IF /\ inp.month \in 1..12
       /\ inp.day >= 1 /\ inp.day <= DaysInMonth(y, inp.month)
       /\ Ordinal(inp.period.start_date) <= y * 10000 + inp.month * 100 + inp.day
       /\ y * 10000 + inp.month * 100 + inp.day <= Ordinal(inp.period.end_date)
    THEN [year |-> y, month |-> inp.month, day |-> inp.day]
    ELSE NoDate

\* C9: infer(month, day, period) returns the start year's candidate when that is a
\* valid date within the period; otherwise, only if the period's end year differs
\* from its start year, the end year's candidate when valid and within the period;
\* otherwise it reports not-inferable. Every date it returns lies within the period
\* and has the given month and day.
C9_InferContract ==
    out.done =>
        LET sy == inp.period.start_date.year
            ey == inp.period.end_date.year
        IN  /\ Candidate(sy) # NoDate => out.val = Candidate(sy)
            /\ (Candidate(sy) = NoDate /\ ey # sy /\ Candidate(ey) # NoDate)
                   => out.val = Candidate(ey)
            /\ (Candidate(sy) = NoDate /\ (ey = sy \/ Candidate(ey) = NoDate))
                   => out.val = NoDate
            /\ out.val # NoDate =>
                   /\ Ordinal(inp.period.start_date) <= Ordinal(out.val)
                   /\ Ordinal(out.val) <= Ordinal(inp.period.end_date)
                   /\ out.val.month = inp.month
                   /\ out.val.day = inp.day

\* The end year's candidate is returned: the period crosses a year boundary and the
\* start year's candidate is outside it.
C9_Witness ==
    /\ out.done
    /\ out.val # NoDate
    /\ inp.period.end_date.year # inp.period.start_date.year
    /\ out.val.year = inp.period.end_date.year
    /\ Candidate(inp.period.start_date.year) = NoDate

(***************************************************************************)
(* Specification SpecPeriod: _parse_statement_period applied to a text     *)
(* holding up to MaxPhrases date-range phrases.                            *)
(***************************************************************************)
MaxPhrases == 2


Phrase1(sname, sd, sy, ename, ed, ey) ==
    [form |-> 1, sname |-> sname, ename |-> ename, sm |-> 0, em |-> 0,
     sd |-> sd, ed |-> ed, sy |-> sy, ey |-> ey, sylen |-> 4, eylen |-> 4]

Phrase2(sname, sd, ename, ed, ey) ==
    [form |-> 2, sname |-> sname, ename |-> ename, sm |-> 0, em |-> 0,
     sd |-> sd, ed |-> ed, sy |-> 0, ey |-> ey, sylen |-> 0, eylen |-> 4]

Phrase3(sm, sd, sy, sylen, em, ed, ey, eylen) ==
    [form |-> 3, sname |-> "", ename |-> "", sm |-> sm, em |-> em,
     sd |-> sd, ed |-> ed, sy |-> sy, ey |-> ey, sylen |-> sylen, eylen |-> eylen]

Phrase4(sm, sd, em, ed, ey) ==
    [form |-> 4, sname |-> "", ename |-> "", sm |-> sm, em |-> em,
     sd |-> sd, ed |-> ed, sy |-> 0, ey |-> ey, sylen |-> 0, eylen |-> 4]

Phrases ==
    { Phrase1("november", 25, Y1, "december", 19, Y1),   \* valid
      Phrase1("november", 31, Y1, "december", 19, Y1),   \* November 31
      Phrase1("page", 1, Y1, "december", 19, Y1),        \* not a month name
      Phrase2("december", 20, "january", 23, Y2),        \* crosses the year boundary
      Phrase2("january", 24, "february", 20, Y2),
      Phrase2("february", 30, "march", 20, Y2),          \* February 30
      Phrase2("march", 1, "march", 31, Y2),              \* one month
      Phrase2("ending", 20, "january", 23, Y2),          \* not a month name
      Phrase3(12, 20, Y1, 4, 1, 23, Y2, 4),
      Phrase3(12, 20, Y1 - 2000, 2, 1, 23, Y2 - 2000, 2),
      Phrase3(12, 20, Y1 - 2000, 2, 1, 23, Y2, 4),       \* 2-digit start year only
      Phrase3(1, 2, Y1 - 2000, 3, 2, 3, Y2 - 2000, 3),   \* 3-digit years, as 025
      Phrase3(13, 20, Y1, 4, 1, 23, Y2, 4),              \* month 13
      Phrase4(12, 20, 1, 23, Y2),                        \* crosses the year boundary
      Phrase4(1, 24, 2, 20, Y2),
      Phrase4(3, 1, 3, 31, Y2),                          \* one month
      Phrase4(2, 30, 3, 20, Y2) }                        \* February 30

RECURSIVE SeqsUpTo(_, _)
SeqsUpTo(S, n) ==
    IF n = 0 THEN {<<>>}
    ELSE LET shorter == SeqsUpTo(S, n - 1)
         IN  shorter \cup {Append(q, x) : q \in shorter, x \in S}

PeriodTexts == SeqsUpTo(Phrases, MaxPhrases)

InitPeriod ==
    /\ txnFile = <<>>
    /\ acctFile = <<>>
    /\ journalFile = <<>>
    /\ call = NoCall
    /\ inp \in [text : PeriodTexts]
    /\ out = [done |-> FALSE, val |-> NoPeriod]

ApplyPeriod ==
    /\ ~out.done
    /\ out' = [done |-> TRUE, val |-> ParseStatementPeriod(inp.text)]
    /\ UNCHANGED <<txnFile, acctFile, journalFile, call, inp>>

NextPeriod == ApplyPeriod

SpecPeriod == InitPeriod /\ [][NextPeriod]_vars

\* Form f matches the text and its match yields two valid calendar dates.
Yields(f) == FormatBlock(f, inp.text) # NoPeriod

\* C10: the resolver tries the four forms in the order 1, 2, 3, 4 and returns the
\* period built from the first form that matches and yields two valid calendar
\* dates; a later form is used only when every earlier form failed to match or
\* was calendar-invalid; when no form yields a period there is none.
C10_FirstFormWins ==
    out.done =>
        /\ \A f \in 1..4 :
               (Yields(f) /\ \A g \in 1..(f - 1) : ~Yields(g))
                   => out.val = FormatBlock(f, inp.text)
        /\ (\A f \in 1..4 : ~Yields(f)) => out.val = NoPeriod

\* A later form is used although an earlier form matched: form 1 matched with a
\* calendar-invalid date, and the period comes from form 3 while form 4 would have
\* given another one.
C10_Witness ==
    /\ out.done
    /\ Search(1, inp.text) # NoPhrase
    /\ ~Yields(1)
    /\ ~Yields(2)
    /\ Yields(3)
    /\ out.val = FormatBlock(3, inp.text)

\* The period returned comes from form f: f is the first form that yields one.
From(f) == out.done /\ Yields(f) /\ \A g \in 1..(f - 1) : ~Yields(g)

\* The start month a phrase of form 2 or 4 states.
StartMonth(m) == IF m.form = 2 THEN MONTH_NAMES(m.sname) ELSE m.sm

\* The end month a phrase of form 2 or 4 states.
EndMonth(m) == IF m.form = 2 THEN MONTH_NAMES(m.ename) ELSE m.em

\* C11: in a period that comes from form 2 or form 4 the end date has the stated
\* year, and the start date has the stated year minus 1 exactly when the start
\* month is greater than the end month, otherwise the stated year; in a period
\* that comes from form 3 a 2-digit year yy is the year 2000 + yy.
C11_YearRules ==
    /\ \A f \in {2, 4} :
           From(f) =>
               /\ out.val.end_date.year = Search(f, inp.text).ey
               /\ out.val.start_date.year =
                      IF StartMonth(Search(f, inp.text)) > EndMonth(Search(f, inp.text))
                      THEN Search(f, inp.text).ey - 1
                      ELSE Search(f, inp.text).ey
    /\ From(3) =>
           /\ Search(3, inp.text).sylen = 2
                  => out.val.start_date.year = 2000 + Search(3, inp.text).sy
           /\ Search(3, inp.text).eylen = 2
                  => out.val.end_date.year = 2000 + Search(3, inp.text).ey

\* A period comes from a form 2 phrase whose start month is after its end month,
\* and its start date is in the year before the stated one.
C11_Witness ==
    /\ From(2)
    /\ StartMonth(Search(2, inp.text)) > EndMonth(Search(2, inp.text))
    /\ out.val.start_date.year = Search(2, inp.text).ey - 1
    /\ out.val.end_date.year = Search(2, inp.text).ey

\* d is a date of the calendar.
IsCalendarDate(d) ==
    /\ d.year \in MINYEAR..MAXYEAR
    /\ d.month \in 1..12
    /\ d.day \in 1..DaysInMonth(d.year, d.month)

\* The regex of form f matches the text.
Matches(f) == Search(f, inp.text) # NoPhrase

\* The text without the phrases of form f.
Without(f) == SelectSeq(inp.text, LAMBDA m : m.form # f)

\* C22: the period resolver never raises: a form whose regex matches but whose
\* month name is unknown or whose date construction is calendar-invalid is treated
\* as a non-match and the next form is tried; the only outcomes are a
\* StatementPeriod of two calendar dates and no period.
C22_ResolverNeverRaises ==
    out.done =>
        /\ \/ out.val = NoPeriod
           \/ IsCalendarDate(out.val.start_date) /\ IsCalendarDate(out.val.end_date)
        /\ \A f \in 1..4 :
               (Matches(f) /\ ~Yields(f)) => out.val = ParseStatementPeriod(Without(f))

\* Form 1 matched with a word that is no month name or with a day its month does
\* not have, and the period was taken from a later form.
C22_Witness ==
    /\ out.done
    /\ Matches(1)
    /\ \/ MONTH_NAMES(Search(1, inp.text).sname) = 0
       \/ Search(1, inp.text).sd > 30
    /\ ~Yields(1)
    /\ out.val # NoPeriod
    /\ out.val = ParseStatementPeriod(Without(1))

(***************************************************************************)
(* Specification SpecFallback: the statement period _parse_transactions    *)
(* works with, for one text on one day.                                    *)
(***************************************************************************)
\* The days date.today() returns: the middle of every month, the first and the
\* last day of a year, and a leap day.
FallbackDays ==
    {date(Y2, m, 15) : m \in 1..12}
        \cup {date(Y2, 1, 1), date(Y2, 12, 31), date(Y1, 2, 28), date(BaseYear, 3, 1)}

InitFallback ==
    /\ txnFile = <<>>
    /\ acctFile = <<>>
    /\ journalFile = <<>>
    /\ call = NoCall
    /\ inp \in [text : PeriodTexts, today : FallbackDays]
    /\ out = [done |-> FALSE, val |-> NoPeriod]

ApplyFallback ==
    /\ ~out.done
    /\ out' = [done |-> TRUE, val |-> PeriodUsed(inp.text, inp.today)]
    /\ UNCHANGED <<txnFile, acctFile, journalFile, call, inp>>

NextFallback == ApplyFallback

SpecFallback == InitFallback /\ [][NextFallback]_vars

\* No phrase of the text has the shape of any of the four forms.
NoFormMatches == \A f \in 1..4 : Search(f, inp.text) = NoPhrase

\* C12: when no period form matches the text, the period used for the year
\* inference runs from January 1 of the previous year to December 31 of the
\* current year if the current month is January or February, and from January 1
\* to December 31 of the current year otherwise.
C12_FallbackPeriod ==
    (out.done /\ NoFormMatches) =>
        /\ out.val.end_date = date(inp.today.year, 12, 31)
        /\ out.val.start_date =
               IF inp.today.month \in {1, 2}
               THEN date(inp.today.year - 1, 1, 1)
               ELSE date(inp.today.year, 1, 1)

\* No form matches in February, and the period starts in the previous year.
C12_Witness ==
    /\ out.done
    /\ NoFormMatches
    /\ inp.today.month = 2
    /\ out.val = StatementPeriod(date(inp.today.year - 1, 1, 1),
                                 date(inp.today.year, 12, 31))

(***************************************************************************)
(* Specification SpecRow: the table loop of _parse_transactions applied to *)
(* a table of one row.                                                     *)
(***************************************************************************)
\* The first cell, the interior cells and the last cell of the rows.
RowDates ==
    { <<"1", "2", "/", "2", "1">>, <<" ", "1", "/", "5">>, <<"1", "3", "/", "1">>,
      <<"2", "/", "3", "0">>, <<"D", "a", "t", "e">>, <<>> }

RowInteriors ==
    { << <<"A", "M", "Z">> >>, << <<>> >>, << <<" ">>, <<>> >>,
      << <<"A">>, <<"B", " ">> >> }

RowAmounts ==
    { <<"5", "0", ".", "0", "0">>, <<"(", "5", "0", ".", "0", "0", ")">>,
      <<"-", "5", "0", ".", "0", "0">>, <<"$", "1", ",", "2", "0", "0", ".", "0", "0">>,
      <<"-", "$", "5", ".", "0", "0">>, <<"(", "$", "5", ".", "0", "0", ")", " ">>,
      <<"(", "-", "5", ".", "0", "0", ")">>, <<"-", "-", "5", ".", "0", "0">>,
      <<"a", "b", "c">>, <<"(", ")">>, <<>> }

\* The rows: a first cell, interior cells and a last cell, or two cells only.
TableRowInputs ==
    {<<d>> \o mid \o <<a>> : d \in RowDates, mid \in RowInteriors, a \in RowAmounts}
        \cup {<<d, a>> : d \in RowDates, a \in RowAmounts}

RowPeriods ==
    { StatementPeriod(date(Y1, 12, 20), date(Y2, 1, 23)),
      StatementPeriod(date(Y2, 1, 1), date(Y2, 12, 31)) }

InitRow ==
    /\ txnFile = <<>>
    /\ acctFile = <<>>
    /\ journalFile = <<>>
    /\ call = NoCall
    /\ inp \in [row : TableRowInputs, period : RowPeriods]
    /\ out = [done |-> FALSE, val |-> <<>>]

ApplyRow ==
    /\ ~out.done
    /\ out' = [done |-> TRUE, val |-> TableRows(<<inp.row>>, inp.period)]
    /\ UNCHANGED <<txnFile, acctFile, journalFile, call, inp>>

NextRow == ApplyRow

SpecRow == InitRow /\ [][NextRow]_vars

\* The MM/DD prefix of the row's first cell, <<>> when it has none.
RowPrefix == DatePrefix(Strip(inp.row[1]))

\* The date inferred from the prefix, NoDate when there is no prefix or no date.
RowDate ==
    IF RowPrefix = <<>> THEN NoDate
    ELSE InferTransactionDate(RowPrefix[1], RowPrefix[2], inp.period)

\* The interior cells of the row joined.
RowDescription ==
    Strip(JoinSpace([i \in 1..(Len(inp.row) - 2) |-> Strip(inp.row[i + 1])]))

\* The last cell with currency symbols and thousands separators stripped.
RowLast == Strip(RemoveChars(inp.row[Len(inp.row)], {"$", ","}))

\* The last cell is parenthesized or has a leading "-".
RowSigned ==
    \/ StartsWith(RowLast, "(") /\ EndsWith(RowLast, ")")
    \/ StartsWith(RowLast, "-")

\* The Decimal d is less than zero.
Negative(d) == d.sign = 1 /\ d.coef # 0

\* C13: a table row of at least 3 cells yields one raw row, with the date of the
\* MM/DD prefix of its first cell, the interior cells joined as description and
\* the last cell, stripped of currency symbols and thousands separators, as
\* amount, negative exactly when the last cell is parenthesized or has a leading
\* "-"; a row of fewer than 3 cells, without date prefix, with a date that cannot
\* be inferred, with an empty description or with an amount that holds no digit
\* yields no raw row.
C13_TableRow ==
    out.done =>
        /\ Len(out.val) <= 1
        /\ ( \/ Len(inp.row) < 3
             \/ RowDate = NoDate
             \/ RowDescription = <<>>
             \/ \A i \in 1..Len(RowLast) : RowLast[i] \notin DigitChars )
               => out.val = <<>>
        /\ out.val # <<>> =>
               /\ out.val[1].date = RowDate
               /\ out.val[1].description = RowDescription
               /\ Negative(out.val[1].amount) <=> RowSigned
               /\ ~RowSigned => out.val[1].amount = DecimalOf(RowLast)

(***************************************************************************)
(* Specification SpecId: Transaction.generate_id called twice, one call     *)
(* after the other, each with an account id, a date, a description and an  *)
(* amount. The amounts are Decimals built from the texts of amount cells.   *)
(***************************************************************************)
IdAmounts ==
    { DecimalOf(<<"5">>), DecimalOf(<<"5", ".", "0", "0">>),
      DecimalOf(<<"-", "5", ".", "0", "0">>) }

IdArgs ==
    [account_id : StoredAccounts,
     txn_date : {date(Y1, 12, 21), date(Y2, 1, 5)},
     description : {<<"A", "M", "Z">>, <<"P", "A", "Y">>},
     amount : IdAmounts]

InitId ==
    /\ txnFile = <<>>
    /\ acctFile = <<>>
    /\ journalFile = <<>>
    /\ call = NoCall
    /\ inp \in [1..2 -> IdArgs]
    /\ out = [done |-> FALSE, val |-> <<>>]

\* The next call of Transaction.generate_id.
CallGenerateId ==
    /\ ~out.done
    /\ \E a \in {inp[Len(out.val) + 1]} :
           out' = [done |-> Len(out.val) = 1,
                   val |-> Append(out.val, GenerateId(a.account_id, a.txn_date,
                                                      a.description, a.amount))]
    /\ UNCHANGED <<txnFile, acctFile, journalFile, call, inp>>

NextId == CallGenerateId

SpecId == InitId /\ [][NextId]_vars

\* The two calls were given equal values: the same account id, date and
\* description, and amounts that are equal as Decimals.
EqualArgs ==
    /\ inp[1].account_id = inp[2].account_id
    /\ inp[1].txn_date = inp[2].txn_date
    /\ inp[1].description = inp[2].description
    /\ DecEq(inp[1].amount, inp[2].amount)

\* C15: Transaction.generate_id is a function of exactly (account_id, date,
\* description, amount): two calls with equal values of the four fields return
\* the same id, whatever was called before.
C15_IdFunctionOfFields ==
    (out.done /\ EqualArgs) => out.val[1] = out.val[2]

(***************************************************************************)
(* Specification SpecParse: ChaseParser.parse applied to one document on   *)
(* one day.                                                                *)
(***************************************************************************)
RowHeader == << <<"D">>, <<"T">>, <<"A">> >>
RowDebit == << <<"1", "2", "/", "2", "1">>, <<"A", "M", "Z">>,
               <<"(", "5", "0", ".", "0", "0", ")">> >>
RowCredit == << <<"1", "/", "5">>, <<"P", "A", "Y">>,
                <<"$", "2", "0", "0", ".", "0", "0">> >>
RowShort == << <<"1", "2", "/", "2", "1">>, <<"5", "0", ".", "0", "0">> >>

DocTables ==
    { <<>>,
      << <<RowHeader, RowShort>> >>,                 \* no row survives
      << <<RowHeader, RowCredit, RowDebit>> >>,      \* two rows, out of date order
      << <<RowDebit>>, <<RowDebit>> >> }             \* the same row twice

DocLines ==
    { <<>>,
      << <<"T", "o", "t", "a", "l">>,
         <<"1", "2", "/", "2", "1", " ", "A", "M", "Z", " ", "-", "5", "0", ".", "0", "0">> >> }

DocPeriods ==
    { <<>>,
      <<Phrase2("december", 20, "january", 23, Y2)>>,
      <<Phrase1("november", 25, Y1, "december", 19, Y1)>> }

DocBalances ==
    { <<>>,
      <<"1", ",", "0", "0", "0", ".", "0", "0">>,
      <<"1", ",", "1", "5", "0", ".", "0", "0">>,
      <<",">> }                                      \* Decimal("") raises

Docs ==
    [account_number : {"", "1234"},
     credit_card : BOOLEAN,
     savings : BOOLEAN,
     beginning : DocBalances,
     ending : DocBalances \ {<<",">>},
     period : DocPeriods,
     tables : DocTables,
     lines : DocLines]

Todays == {date(Y2, 1, 15), date(Y2, 6, 15)}

InitParse ==
    /\ txnFile = <<>>
    /\ acctFile = <<>>
    /\ journalFile = <<>>
    /\ call = NoCall
    /\ inp \in [doc : Docs, today : Todays]
    /\ out = [done |-> FALSE, val |-> NoResult]

ApplyParse ==
    /\ ~out.done
    /\ out' = [done |-> TRUE, val |-> Parse(inp.doc, inp.today)]
    /\ UNCHANGED <<txnFile, acctFile, journalFile, call, inp>>

NextParse == ApplyParse

SpecParse == InitParse /\ [][NextParse]_vars

\* The rows of the parsed document that survived extraction, in date order.
Survived == RawTransactions(inp.doc, inp.today)

\* The beginning balance the document states.
Stated(figure) == DecimalOf(RemoveChars(figure, {","}))

RECURSIVE SumAmounts(_)
SumAmounts(raw) ==
    IF raw = <<>> THEN Dec(0, 0, 0) ELSE DecAdd(Head(raw).amount, SumAmounts(Tail(raw)))

\* The transactions t form a running-balance chain from the balance b.
IsChain(t, b) ==
    /\ t # <<>> => DecEq(t[1].previous_balance, b)
    /\ \A i \in 1..Len(t) :
           DecEq(t[i].new_balance, DecAdd(t[i].previous_balance, t[i].amount))
    /\ \A i \in 1..(Len(t) - 1) : DecEq(t[i + 1].previous_balance, t[i].new_balance)

C2_MismatchRaises ==
    (/\ out.done
     /\ inp.doc.beginning # <<>> /\ Stated(inp.doc.beginning) # InvalidOperation
     /\ inp.doc.ending # <<>>
     /\ ~DecEq(DecAdd(Stated(inp.doc.beginning), SumAmounts(Survived)),
               Stated(inp.doc.ending)))
        => out.val.status = "BalanceMismatchError"

\* C6: when no transaction row survives extraction (table path and text fallback
\* both yield nothing), parse fails with NoTransactionsParsedError and never
\* returns an empty transaction list.
C6_NoRowsRaises ==
    (out.done /\ Survived = <<>>)
        => /\ out.val.status = "NoTransactionsParsedError"
           /\ ~(out.val.status = "ok" /\ out.val.transactions = <<>>)

\* C7: when the text holds no account number parse fails with
\* NoAccountNumberFoundError, when it holds no beginning-balance line parse fails
\* with NoBalanceFoundError; no Account comes back in either case.
C7_MissingInfoRaises ==
    out.done =>
        /\ inp.doc.account_number = "" => out.val.status = "NoAccountNumberFoundError"
        /\ (inp.doc.account_number # "" /\ inp.doc.beginning = <<>>)
               => out.val.status = "NoBalanceFoundError"

\* The account type the text's words stand for.
TypeFor(doc) ==
    IF doc.credit_card THEN "credit" ELSE IF doc.savings THEN "saving" ELSE "debit"

\* C14: the Account a successful parse returns has an account_type that is a member
\* of the enum AccountType (debit, credit, saving, investment): credit when the text
\* holds "credit card", saving when it holds "savings", debit otherwise; so
\* Account.to_dict serializes it without raising.
C14_AccountTypeIsEnum ==
    (out.done /\ out.val.status = "ok")
        => /\ out.val.account.account_type.cls = "AccountType"
           /\ out.val.account.account_type.value \in AccountTypeValues
           /\ out.val.account.account_type.value = TypeFor(inp.doc)
           /\ ~AccountToDictRaises(out.val.account)

\* The transaction t carries the account id and the date, description and amount
\* of the raw row.
Carries(t, account_id, row) ==
    /\ t.account_id = account_id
    /\ t.posting_date = row.date
    /\ t.description = row.description
    /\ t.amount = row.amount

Batches ==
    [account_id \in StoredAccounts |->
        SeqsUpTo(Universe(account_id), IF account_id = "1234" THEN MaxBatch ELSE 1)]

\* The statements uploaded: one with no transaction row and one with two.
UploadDocs ==
    [account_number : {"1234"},
     credit_card : {FALSE},
     savings : {FALSE},
     beginning : {<<"1", ",", "0", "0", "0", ".", "0", "0">>},
     ending : {<<>>},
     period : {<<Phrase2("december", 20, "january", 23, Y2)>>},
     tables : {<<>>, << <<RowHeader, RowCredit, RowDebit>> >>},
     lines : {<<>>}]

\* The day of the uploads.
UploadDay == date(Y2, 1, 15)

\* ChaseParser().parse(file_path) of each statement uploaded.
Parsed == [doc \in UploadDocs |-> Parse(doc, UploadDay)]

\* The arguments create_account is called with: the account type, and the text
\* str(balance) of the balance, <<>> for None.
CreateArgs == { <<"debit", <<"1", "0", "0", ".", "0">> >> }

Init ==
    /\ txnFile = AbsentFile
    /\ acctFile = AbsentFile
    /\ journalFile = <<>>
    /\ call = NoCall
    /\ inp = <<>>
    /\ out = <<>>

\* save_transactions_by_account(account_id, batch), called directly.
SaveTransactions ==
    \E account_id \in StoredAccounts :
      \E batch \in Batches[account_id] :
        \E saved \in {SaveTransactionsByAccount(txnFile, account_id, batch)} :
            /\ txnFile' = saved.file
            /\ call' = [op |-> "save_transactions_by_account", status |-> "ok",
                        account_id |-> account_id, batch |-> batch,
                        returned |-> saved.account_transactions, added |-> saved.added,
                        repeat |-> /\ call.op = "save_transactions_by_account"
                                   /\ call.account_id = account_id
                                   /\ call.batch = batch,
                        pre_txn |-> txnFile, pre_acct |-> acctFile]
            /\ UNCHANGED <<acctFile, journalFile, inp, out>>

\* The tool create_account.
CreateAccount ==
    \E args \in CreateArgs :
      \E account \in {CreatedAccount(args[1], args[2])} :
        \E stored \in {SaveAccount(acctFile, account)} :
            /\ acctFile' = stored.file
            /\ call' = [NoCall EXCEPT !.op = "create_account", !.status = stored.status,
                                      !.account_id = account.id,
                                      !.pre_txn = txnFile, !.pre_acct = acctFile]
            /\ UNCHANGED <<txnFile, journalFile, inp, out>>

\* The tool upload_statement.
Upload ==
    \E doc \in UploadDocs :
      \E done \in {UploadStatement(txnFile, acctFile, Parsed[doc])} :
            /\ txnFile' = done.txn_file
            /\ acctFile' = done.acct_file
            /\ call' = [op |-> "upload_statement", status |-> done.status,
                        account_id |-> done.account_id, batch |-> done.transactions,
                        returned |-> done.account_transactions, added |-> done.added,
                        repeat |-> /\ call.op = "upload_statement"
                                   /\ done.account_id # ""
                                   /\ call.account_id = done.account_id
                                   /\ call.batch = done.transactions,
                        pre_txn |-> txnFile, pre_acct |-> acctFile]
            /\ UNCHANGED <<journalFile, inp, out>>

Next == SaveTransactions \/ CreateAccount \/ Upload

Spec == Init /\ [][Next]_vars

\* The last call ran the merge of save_transactions_by_account: it was called
\* directly, or by an upload_statement whose parse did not raise.
Merged ==
    \/ call.op = "save_transactions_by_account"
    \/ call.op = "upload_statement" /\ call.account_id # ""

\* The transactions stored for an account before and after the last call.
StoredBefore(account_id) == GetList(LoadAllTransactions(call.pre_txn), account_id)
StoredAfter(account_id) == GetList(LoadAllTransactions(txnFile), account_id)

\* The number of places of the list s that hold t.
Count(s, t) == Cardinality({i \in 1..Len(s) : s[i] = t})

\* The incoming transactions of the last call whose id was not stored before it.
Fresh ==
    LET old == StoredBefore(call.account_id)
    IN  SelectSeq(call.batch, LAMBDA t : \A i \in 1..Len(old) : old[i].id # t.id)

\* C3: merging the result of parsing the same document a second time, right after
\* the first merge, reports 0 new transactions and leaves the account with the
\* same number of stored transactions as merging once.
C3_Idempotent ==
    call.repeat =>
        /\ call.added = 0
        /\ Len(StoredAfter(call.account_id)) = Len(StoredBefore(call.account_id))

\* The same batch of two transactions is merged a second time into an account
\* that holds them.
C3_Witness ==
    /\ call.repeat
    /\ call.op = "save_transactions_by_account"
    /\ Len(call.batch) = 2
    /\ call.batch[1].id # call.batch[2].id
    /\ Len(StoredAfter(call.account_id)) = 2

\* C4: after any sequence of save_transactions_by_account calls no two
\* transactions stored for an account share an id, also when one incoming batch
\* holds the same id more than once.
C4_NoDuplicateIds ==
    ~LoadRaises(txnFile) =>
        \A a \in DOMAIN txnFile.data :
            \A i, j \in 1..Len(txnFile.data[a]) :
                i # j => txnFile.data[a][i].id # txnFile.data[a][j].id

\* C5: save_transactions_by_account returns and stores a list in non-decreasing
\* posting_date order that holds every previously stored transaction of the
\* account unchanged and every incoming transaction whose id was not stored
\* before, and nothing else; the lists of all other accounts are as they were;
\* the count returned is the number of incoming transactions added.
C5_SaveContract ==
    Merged =>
        LET a == call.account_id
            old == StoredBefore(a)
            now == StoredAfter(a)
        IN  /\ call.returned = now
            /\ \A i \in 1..(Len(now) - 1) :
                   DateLe(now[i].posting_date, now[i + 1].posting_date)
            /\ \A i \in 1..Len(old) :
                   Count(now, old[i]) = Count(old, old[i]) + Count(Fresh, old[i])
            /\ \A i \in 1..Len(Fresh) :
                   Count(now, Fresh[i]) = Count(old, Fresh[i]) + Count(Fresh, Fresh[i])
            /\ Len(now) = Len(old) + Len(Fresh)
            /\ DOMAIN txnFile.data = DOMAIN call.pre_txn.data \cup {a}
            /\ \A b \in DOMAIN call.pre_txn.data \ {a} :
                   txnFile.data[b] = call.pre_txn.data[b]
            /\ call.added = Len(Fresh)

\* A batch of one transaction whose id is stored and one whose id is not is
\* merged into an account that holds a transaction, while another account holds
\* one too; the transaction added is dated before the one stored.
C5_Witness ==
    /\ call.op = "save_transactions_by_account"
    /\ Len(call.batch) = 2
    /\ call.added = 1
    /\ StoredBefore(call.account_id) # <<>>
    /\ call.returned # StoredBefore(call.account_id) \o Fresh
    /\ \E b \in DOMAIN call.pre_txn.data \ {call.account_id} :
           call.pre_txn.data[b] # <<>>

\* C8: when upload_statement raises, neither the transaction store nor the
\* account store is changed.
C8_AllOrNothing ==
    (call.op = "upload_statement" /\ call.status # "ok") =>
        /\ txnFile = call.pre_txn
        /\ acctFile = call.pre_acct

(***************************************************************************)
(* Specification SpecCategorize: update_transaction, categorize_transaction *)
(* and upload_statement called one after another on a transactions file     *)
(* that save_transactions_by_account wrote. inp holds the arguments of the  *)
(* last call, out what it returned.                                         *)
(***************************************************************************)
\* The batches the file was written from: for account 1234 its transactions in any
\* order, for account 5678 its one transaction or none.
WholeBatches ==
    {b \in SeqsUpTo(Universe("1234"), Cardinality(Universe("1234"))) :
        {b[i] : i \in 1..Len(b)} = Universe("1234")}

InitialFiles ==
    {SaveTransactionsByAccount(
         SaveTransactionsByAccount(AbsentFile, "1234", b).file, "5678", c).file :
        b \in WholeBatches, c \in Batches["5678"]}

\* The category lists of the account argument.
CategoryLists ==
    { <<>>,
      << [name |-> "food", description |-> "Food"],
         [name |-> "rent", description |-> "Rent and mortgage payments"] >> }

\* The account argument of categorize_transaction.
AccountArgs ==
    {AccountToDict(Account("1234", AccountType("debit"), NoneDecimal, categories)) :
        categories \in CategoryLists}

\* The transaction argument of categorize_transaction: one whose id two stored
\* transactions of account 1234 have, and the one of account 5678.
TransactionArgs ==
    {ToDictTable[t] : t \in {u \in DOMAIN ToDictTable : u.previous_balance = Dec(0, 0, 0)}}

\* The category argument: omitted, a name of the account's list, or another name.
CategoryArgs == {None, "food", "misc"}

\* What the call of the model comes to.
Answers ==
    {[raises |-> TRUE, category |-> ""]}
        \cup [raises : {FALSE}, category : {"food", "income", ""}]

\* The arguments of update_transaction.
UpdateIds == {d.id : d \in TransactionArgs}

UpdateArgs ==
    { [category |-> "food"], [amount |-> Dec(0, 100, -2)], [note |-> "x"] }

InitCategorize ==
    /\ txnFile \in InitialFiles
    /\ acctFile = AbsentFile
    /\ journalFile = <<>>
    /\ call = NoCall
    /\ inp = <<>>
    /\ out = <<>>

\* update_transaction(transaction_id, **updates), called directly.
Update ==
    \E transaction_id \in UpdateIds :
      \E updates \in UpdateArgs :
        \E updated \in {UpdateTransaction(txnFile, transaction_id, updates)} :
            /\ txnFile' = updated.file
            /\ call' = [NoCall EXCEPT !.op = "update_transaction", !.status = "ok",
                                      !.pre_txn = txnFile, !.pre_acct = acctFile]
            /\ inp' = [transaction_id |-> transaction_id, updates |-> updates]
            /\ out' = updated.returned
            /\ UNCHANGED <<acctFile, journalFile>>

\* The tool categorize_transaction. The answer of the model is read only when no
\* category is given.
Categorize ==
    \E account \in AccountArgs :
      \E transaction \in TransactionArgs :
        \E category \in CategoryArgs :
          \E answer \in IF category = None THEN Answers
                         ELSE {[raises |-> TRUE, category |-> ""]} :
            \E done \in {CategorizeTransaction(txnFile, account, transaction,
                                                category, answer)} :
                /\ txnFile' = done.file
                /\ call' = [NoCall EXCEPT !.op = "categorize_transaction",
                                          !.status = "ok",
                                          !.pre_txn = txnFile, !.pre_acct = acctFile]
                /\ inp' = [account |-> account, transaction |-> transaction,
                           category |-> category, answer |-> answer]
                /\ out' = [result |-> done.result, message |-> done.message,
                           category |-> done.category]
                /\ UNCHANGED <<acctFile, journalFile>>

NextCategorize == Update \/ Categorize \/ Upload

SpecCategorize == InitCategorize /\ [][NextCategorize]_vars

\* The fields of a stored transaction other than its category.
FixedFields ==
    {"id", "account_id", "posting_date", "description", "amount",
     "previous_balance", "new_balance"}

\* The stored transactions d and e agree on every field but the category.
SameButCategory(d, e) == \A f \in FixedFields : d[f] = e[f]

\* Every transaction of the file before is in the file after, at its place,
\* with all its fields but the category as they were.
KeepsFixedFields(before, after) ==
    \A a \in DOMAIN before.data :
        /\ a \in DOMAIN after.data
        /\ Len(after.data[a]) >= Len(before.data[a])
        /\ \A i \in 1..Len(before.data[a]) :
               SameButCategory(before.data[a][i], after.data[a][i])

\* C16: after a transaction has been stored, category is the only one of its
\* fields that a later operation changes: across upload_statement,
\* categorize_transaction and update_transaction calls every stored transaction
\* keeps its id, account_id, posting_date, description, amount, previous_balance
\* and new_balance.
C16_OnlyCategoryChanges == [][KeepsFixedFields(txnFile, txnFile')]_vars

\* The names a category must be among for the last categorize_transaction call.
ValidNames ==
    IF inp.category # None THEN Names(inp.account.categories)
    ELSE Names(CategoriesOr(inp.account.categories))

\* The category the last categorize_transaction call was to store.
Asked == IF inp.category # None THEN inp.category ELSE inp.answer.category

\* The model's answer failed or was no name at all.
AiFailed == inp.category = None /\ inp.answer.raises

\* The file differs from the one before the call in the category of one stored
\* transaction with the id of the transaction argument, now c, and nothing else.
StoredOnly(c) ==
    \E a \in DOMAIN call.pre_txn.data :
        \E i \in 1..Len(call.pre_txn.data[a]) :
            /\ call.pre_txn.data[a][i].id = inp.transaction.id
            /\ txnFile = JsonFile([call.pre_txn.data EXCEPT ![a][i].category = c])

\* C19: categorize_transaction with a category given stores it on the transaction
\* only if it is the name of one of the account's categories, and otherwise returns
\* an error and leaves the transactions file as it was; with no category given it
\* stores the model's answer only if that is one of the account's category names
\* (of the default categories when the account has none), and on a failure of the
\* model or an answer that is no such name it leaves the file as it was.
C19_CategorizeStoresValidOnly ==
    call.op = "categorize_transaction" =>
        /\ (AiFailed \/ Asked \notin ValidNames)
               => out.result = "error" /\ txnFile = call.pre_txn
        /\ out.result = "error" => txnFile = call.pre_txn
        /\ out.result = "success"
               => /\ ~AiFailed
                  /\ Asked \in ValidNames
                  /\ out.category = Asked
                  /\ StoredOnly(Asked)

\* The model's answer, a default category, was stored for an account without
\* categories, and the file holds a transaction with the category food as well.
C19_Witness ==
    /\ call.op = "categorize_transaction"
    /\ out.result = "success"
    /\ txnFile # call.pre_txn
    /\ inp.category = None
    /\ inp.account.categories = <<>>
    /\ \E a \in DOMAIN txnFile.data :
           \E i \in 1..Len(txnFile.data[a]) : txnFile.data[a][i].category = "income"
    /\ \E a \in DOMAIN txnFile.data :
           \E i \in 1..Len(txnFile.data[a]) : txnFile.data[a][i].category = "food"

(***************************************************************************)
(* Specification SpecUploads: upload_statement called one statement after   *)
(* another for account 1234, from the state in which neither file exists.   *)
(* inp holds the statement of the last call and the day of the call.        *)
(***************************************************************************)
\* The statements uploaded: with and without rows, of overlapping periods and of
\* different beginning balances.
StatementDocs ==
    [account_number : {"1234"},
     credit_card : {FALSE},
     savings : {FALSE},
     beginning : DocBalances \ {<<>>, <<",">>},
     ending : {<<>>},
     period : DocPeriods \ {<<>>},
     tables : DocTables,
     lines : DocLines]

\* ChaseParser().parse(file_path) of each of these statements.
ParsedStatement ==
    [doc \in StatementDocs |-> [today \in Todays |-> Parse(doc, today)]]

InitUploads ==
    /\ txnFile = AbsentFile
    /\ acctFile = AbsentFile
    /\ journalFile = <<>>
    /\ call = NoCall
    /\ inp \in [doc : {CHOOSE doc \in StatementDocs : TRUE}, today : Todays]
    /\ out = <<>>

\* The tool upload_statement, called with one of the statements on some day.
UploadDoc ==
    \E doc \in StatementDocs, today \in Todays :
      \E done \in {UploadStatement(txnFile, acctFile, ParsedStatement[doc][today])} :
            /\ txnFile' = done.txn_file
            /\ acctFile' = done.acct_file
            /\ call' = [NoCall EXCEPT !.op = "upload_statement", !.status = done.status,
                                      !.account_id = done.account_id,
                                      !.batch = done.transactions,
                                      !.returned = done.account_transactions,
                                      !.added = done.added,
                                      !.pre_txn = txnFile, !.pre_acct = acctFile]
            /\ inp' = [doc |-> doc, today |-> today]
            /\ UNCHANGED <<journalFile, out>>

NextUploads == UploadDoc

SpecUploads == InitUploads /\ [][NextUploads]_vars

\* In the list t each transaction starts from the new balance of the one stored
\* before it.
IsLinked(t) ==
    \A i \in 1..(Len(t) - 1) : DecEq(t[i + 1].previous_balance, t[i].new_balance)

MaxJournals == 2

\* The account of the journals, as Account.from_dict builds it.
JournalOwner == Account("acct-1", AccountType("debit"), NoneDecimal, <<>>)

EntryOf(journal_id) ==
    IF journal_id = "j1"
    THEN << JournalEntry("e1", date(Y2, 1, 15), "equipment", "Office supplies",
                         Dec(0, 5000, -2), Dec(0, 0, -2)) >>
    ELSE <<>>

\* The journals saved, and those update_journal is called with: of either id, with
\* either description and end date.
StoredJournals ==
    {Journal(JournalOwner, description, date(Y2, 1, 1), end_date, journal_id,
             EntryOf(journal_id)) :
        description \in {"January journal", "Updated"},
        end_date \in {date(Y2, 1, 31), date(Y2, 3, 31)},
        journal_id \in {"j1", "j2"}}

\* A journal whose id is never stored.
Ghost == Journal(JournalOwner, "Ghost", date(Y2, 1, 1), date(Y2, 1, 31), "nonexistent", <<>>)

InitJournal ==
    /\ txnFile = AbsentFile
    /\ acctFile = AbsentFile
    /\ journalFile = <<>>
    /\ call = NoCall
    /\ inp = <<>>
    /\ out = <<>>

\* save_journal(journal)
SaveJournalCall ==
    /\ Len(journalFile) < MaxJournals
    /\ \E journal \in StoredJournals :
         \E saved \in {SaveJournal(journalFile, journal)} :
            /\ journalFile' = saved.file
            /\ call' = [NoCall EXCEPT !.op = "save_journal", !.status = saved.status]
            /\ inp' = [journal |-> journal, before |-> journalFile]
    /\ UNCHANGED <<txnFile, acctFile, out>>

\* update_journal(updated)
UpdateJournalCall ==
    /\ \E updated \in StoredJournals \cup {Ghost} :
         \E done \in {UpdateJournal(journalFile, updated)} :
            /\ journalFile' = done.file
            /\ call' = [NoCall EXCEPT !.op = "update_journal", !.status = done.status]
            /\ inp' = [journal |-> updated, before |-> journalFile]
    /\ UNCHANGED <<txnFile, acctFile, out>>

NextJournal == SaveJournalCall \/ UpdateJournalCall

SpecJournal == InitJournal /\ [][NextJournal]_vars

\* The journals stored before and after the last call.
JournalsBefore == LoadJournals(inp.before)
JournalsAfter == LoadJournals(journalFile)

\* The places of the journals stored before the call that have the id of the
\* journal the call was given.
Matching == {i \in 1..Len(JournalsBefore) : JournalsBefore[i].journal_id = inp.journal.journal_id}

\* C20: update_journal(updated) replaces the stored journal whose journal_id
\* equals updated.journal_id, at the same place, and leaves every other stored
\* journal and the number of journals unchanged; when no stored journal has the id
\* it raises ValueError and leaves the storage unchanged.
C20_UpdateJournal ==
    call.op = "update_journal" =>
        /\ Matching = {} => call.status = "ValueError" /\ journalFile = inp.before
        /\ Matching # {} =>
               /\ call.status = "ok"
               /\ Len(JournalsAfter) = Len(JournalsBefore)
               /\ \E i \in Matching :
                      /\ JournalsAfter[i] = inp.journal
                      /\ \A k \in 1..Len(JournalsBefore) :
                             k # i => JournalsAfter[k] = JournalsBefore[k]

\* The second of two stored journals was replaced by one that differs from it,
\* the first one having another id.
C20_Witness ==
    /\ call.op = "update_journal"
    /\ call.status = "ok"
    /\ Len(JournalsBefore) = 2
    /\ Matching = {2}
    /\ JournalsBefore[2] # inp.journal
    /\ JournalsAfter[2] = inp.journal

\* C21: save_journal appends without overwriting: after save_journal(j),
\* load_journals returns the list it returned before the call followed by j as the
\* last element, so the journals are loaded in the order they were saved.
C21_SaveAppends ==
    call.op = "save_journal" =>
        /\ call.status = "ok"
        /\ JournalsAfter = Append(JournalsBefore, inp.journal)

\* A journal was saved to a file that held another one already.
C21_Witness ==
    /\ call.op = "save_journal"
    /\ Len(JournalsBefore) >= 1
    /\ JournalsBefore[1] # inp.journal
    /\ JournalsAfter[Len(JournalsAfter)] = inp.journal

(***************************************************************************)
(* Specification SpecExtract: the extraction of _parse_transactions (the    *)
(* table loop, then the text fallback) applied to the tables and the text   *)
(* lines of one document under a statement period.                          *)
(***************************************************************************)
\* The number of text lines of a document at most.
MaxLines == 2

\* The text lines: a line that is no transaction, a debit, a credit, and a debit
\* written with parentheses.
TextLines ==
    { <<"T", "o", "t", "a", "l">>,
      <<"1", "2", "/", "2", "1", " ", "G", "A", "S", " ", "-", "5", "0", ".", "0", "0">>,
      <<"1", "/", "5", " ", "F", "E", "E", " ", "$", "2", "0", "0", ".", "0", "0">>,
      <<"1", "2", "/", "2", "1", " ", "G", "A", "S", " ", "(", "5", "0", ".", "0", "0", ")">> }

InitExtract ==
    /\ txnFile = <<>>
    /\ acctFile = <<>>
    /\ journalFile = <<>>
    /\ call = NoCall
    /\ inp \in [tables : DocTables, lines : SeqsUpTo(TextLines, MaxLines),
                 period : RowPeriods]
    /\ out = [done |-> FALSE, val |-> <<>>]

ApplyExtract ==
    /\ ~out.done
    /\ out' = [done |-> TRUE, val |-> Extracted(inp, inp.period)]
    /\ UNCHANGED <<txnFile, acctFile, journalFile, call, inp>>

NextExtract == ApplyExtract

SpecExtract == InitExtract /\ [][NextExtract]_vars

\* The raw rows of the table path and those matched from the text lines.
FromTables == TableRows(AllRows(inp.tables), inp.period)
FromText == ParseTransactionsFromText(inp.lines, inp.period)

\* C23: the text fallback path is used if and only if the table path yields zero
\* raw rows: when at least one table row survives the result is the rows of the
\* tables and no row matched from a text line appears in it, and when none
\* survives the result consists exactly of the rows matched from the text lines.
C23_TextOnlyAsFallback ==
    out.done =>
        /\ FromTables # <<>> =>
               /\ out.val = FromTables
               /\ \A i \in 1..Len(FromText) :
                      \A k \in 1..Len(out.val) : out.val[k] # FromText[i]
        /\ FromTables = <<>> => out.val = FromText

\* Table rows survived while text lines matched as well, and the result is the
\* rows of the tables alone.
C23_Witness ==
    /\ out.done
    /\ FromTables # <<>>
    /\ FromText # <<>>
    /\ out.val = FromTables

(***************************************************************************)
(* Specification SpecPaths: the table loop applied to a row of three cells  *)
(* and the text path applied to the line made of the same date, description *)
(* and amount texts, under the same statement period.                       *)
(***************************************************************************)
\* The date, description and amount texts.
PathDates == { <<"1", "2", "/", "2", "1">>, <<"1", "/", "5">>, <<"1", "3", "/", "1">> }

PathDescriptions == { <<"A", "M", "Z">>, <<"G", "A", "S", " ", "C", "O">> }

PathAmounts ==
    { <<"5", "0", ".", "0", "0">>, <<"(", "5", "0", ".", "0", "0", ")">>,
      <<"-", "5", "0", ".", "0", "0">>, <<"$", "1", ",", "2", "0", "0", ".", "0", "0">>,
      <<"-", "$", "5", ".", "0", "0">>, <<"(", "$", "5", ".", "0", "0", ")">>,
      <<"2", "0", "0">>, <<"a", "b", "c">> }

InitPaths ==
    /\ txnFile = <<>>
    /\ acctFile = <<>>
    /\ journalFile = <<>>
    /\ call = NoCall
    /\ inp \in [date : PathDates, description : PathDescriptions,
                 amount : PathAmounts, period : RowPeriods]
    /\ out = [done |-> FALSE, table |-> <<>>, text |-> <<>>]

\* Both paths applied: the row is the three texts as cells, the line the three
\* texts with a blank between them.
ApplyPaths ==
    /\ ~out.done
    /\ out' = [done |-> TRUE,
               table |-> TableRows(<< <<inp.date, inp.description, inp.amount>> >>,
                                   inp.period),
               text |-> ParseTransactionsFromText(
                            <<inp.date \o <<" ">> \o inp.description \o <<" ">>
                                  \o inp.amount>>, inp.period)]
    /\ UNCHANGED <<txnFile, acctFile, journalFile, call, inp>>

NextPaths == ApplyPaths

SpecPaths == InitPaths /\ [][NextPaths]_vars

\* The amount text is parenthesized or has a leading "-".
SignedText ==
    \/ StartsWith(inp.amount, "-")
    \/ StartsWith(inp.amount, "(") /\ EndsWith(inp.amount, ")")

\* C24: the text fallback path applies the same amount and date rules as the table
\* path: a text line whose amount is parenthesized or has a leading "-" yields a
\* raw row with a negative amount, and for the same date, description and amount
\* text both paths produce the same (date, description, amount) triple.
C24_SameRulesOnBothPaths ==
    out.done =>
        /\ out.text = out.table
        /\ (SignedText /\ out.table # <<>>)
               => out.text # <<>> /\ Negative(out.text[1].amount)

(***************************************************************************)
(* Specification SpecTwice: one parser parses a document, then possibly    *)
(* another document, then the first document again, each on its own day.   *)
(***************************************************************************)
RowLeap == << <<"2", "/", "2", "9">>, <<"F", "E", "E">>, <<"5", ".", "0", "0">> >>

TwiceDocs ==
    [account_number : {"1234"},
     credit_card : {FALSE},
     savings : {FALSE},
     beginning : {<<"1", ",", "0", "0", "0", ".", "0", "0">>},
     ending : {<<>>},
     period : {<<>>, <<Phrase2("december", 20, "january", 23, Y2)>>},
     tables : {<<>>, << <<RowLeap>> >>, << <<RowHeader, RowCredit, RowDebit>> >>},
     lines : {<<>>}]

\* Days of the year after the leap year BaseYear, in and after January/February.
TwiceDays == {date(Y1, 1, 15), date(Y1, 6, 15)}

InitTwice ==
    /\ txnFile = <<>>
    /\ acctFile = <<>>
    /\ journalFile = <<>>
    /\ call = NoCall
    /\ inp \in [doc : TwiceDocs, other : TwiceDocs, first_day : TwiceDays,
                 other_day : TwiceDays, second_day : TwiceDays]
    /\ out = [step |-> 0, first |-> NoResult, other |-> NoResult, second |-> NoResult]

\* parser.parse(doc) on the first day.
ParseFirst ==
    /\ out.step = 0
    /\ out' = [out EXCEPT !.step = 1, !.first = Parse(inp.doc, inp.first_day)]
    /\ UNCHANGED <<txnFile, acctFile, journalFile, call, inp>>

\* parser.parse(other) in between: the parser keeps nothing of it.
ParseOther ==
    /\ out.step = 1
    /\ out' = [out EXCEPT !.step = 2, !.other = Parse(inp.other, inp.other_day)]
    /\ UNCHANGED <<txnFile, acctFile, journalFile, call, inp>>

\* parser.parse(doc) again, on the second day.
ParseSecond ==
    /\ out.step \in {1, 2}
    /\ out' = [out EXCEPT !.step = 3, !.second = Parse(inp.doc, inp.second_day)]
    /\ UNCHANGED <<txnFile, acctFile, journalFile, call, inp>>

NextTwice == ParseFirst \/ ParseOther \/ ParseSecond

SpecTwice == InitTwice /\ [][NextTwice]_vars

\* Both parses of the document have run.
ParsedTwice == out.step = 3

SaveAccountFailed ==
    /\ call.op \in {"create_account", "upload_statement"}
    /\ \/ call.status = "AttributeError"
       \/ call.status = "JSONDecodeError" /\ LoadRaises(call.pre_acct)

\* Every account that load_accounts returned for the file before is returned,
\* the same, for the file after.
KeepsAccounts(before, after) ==
    ~LoadRaises(before) =>
        /\ ~LoadRaises(after)
        /\ \A a \in DOMAIN LoadAccounts(before) :
               /\ a \in DOMAIN LoadAccounts(after)
               /\ LoadAccounts(after)[a] = LoadAccounts(before)[a]

\* C26: a save_account call that fails, for example because serializing one
\* account raises, leaves the account store as it was before the call: every
\* account that load_accounts returned before the failed call is still returned
\* afterwards.
C26_FailedSaveKeepsStore == SaveAccountFailed => KeepsAccounts(call.pre_acct, acctFile)

CategoryFromDict(d) == [name |-> d.name, description |-> d.description]

\* The tool update_categories(account_id, categories): what it returns or raises
\* and the file it leaves.
UpdateCategories(file, account_id, categories) ==
    IF LoadRaises(file) THEN [status |-> "JSONDecodeError", file |-> file]
    ELSE IF account_id \notin DOMAIN LoadAccounts(file)
    THEN [status |-> "error", file |-> file]
    ELSE SaveAccount(file,
             [LoadAccounts(file)[account_id] EXCEPT
                 !.categories = [i \in 1..Len(categories) |-> CategoryFromDict(categories[i])]])

\* The accounts handed to save_account directly: the account of the statements,
\* typed as create_account types it.
DirectAccounts == {Account("1234", AccountType("debit"), Dec(0, 10000, -2), <<>>)}

\* The categories arguments of update_categories; a dictionary may carry a key
\* that Category does not have.
CategoriesArgs ==
    { <<>>,
      << [name |-> "food", description |-> "Food", colour |-> "red"] >>,
      << [name |-> "food", description |-> "Food"],
         [name |-> "rent", description |-> "Rent and mortgage payments"] >> }

UpdateCategoriesIds == {"1234", "chase:debit", "0000"}

InitCategories ==
    /\ txnFile = AbsentFile
    /\ acctFile = AbsentFile
    /\ journalFile = <<>>
    /\ call = NoCall
    /\ inp = <<>>
    /\ out = <<>>

\* save_account(account), called directly.
StoreAccount ==
    \E account \in DirectAccounts :
      \E stored \in {SaveAccount(acctFile, account)} :
        /\ acctFile' = stored.file
        /\ call' = [NoCall EXCEPT !.op = "save_account", !.status = stored.status,
                                  !.account_id = account.id,
                                  !.pre_txn = txnFile, !.pre_acct = acctFile]
        /\ UNCHANGED <<txnFile, journalFile, inp, out>>

\* The tool update_categories.
UpdateCategoriesCall ==
    \E account_id \in UpdateCategoriesIds :
      \E categories \in CategoriesArgs :
        \E done \in {UpdateCategories(acctFile, account_id, categories)} :
          /\ acctFile' = done.file
          /\ call' = [NoCall EXCEPT !.op = "update_categories", !.status = done.status,
                                    !.account_id = account_id,
                                    !.pre_txn = txnFile, !.pre_acct = acctFile]
          /\ UNCHANGED <<txnFile, journalFile, inp, out>>

NextCategories == StoreAccount \/ CreateAccount \/ UpdateCategoriesCall \/ Upload

SpecCategories == InitCategories /\ [][NextCategories]_vars

\* The account but for its balance.
SameButBalance(a, b) == [a EXCEPT !.balance = NoneDecimal] = [b EXCEPT !.balance = NoneDecimal]

\* The last call was an upload_statement whose parse returned the account of a
\* stored account.
UploadedForStored ==
    /\ call.op = "upload_statement"
    /\ call.account_id # ""
    /\ ~LoadRaises(call.pre_acct)
    /\ call.account_id \in DOMAIN LoadAccounts(call.pre_acct)

\* C27: categories configured for an account with update_categories survive a
\* later upload_statement for the same account: upload_statement changes only the
\* balance of an already stored account and leaves its categories, and all other
\* accounts, unchanged.
C27_UploadKeepsCategories ==
    UploadedForStored =>
        /\ ~LoadRaises(acctFile)
        /\ \A a \in DOMAIN LoadAccounts(call.pre_acct) :
               /\ a \in DOMAIN LoadAccounts(acctFile)
               /\ a # call.account_id
                      => LoadAccounts(acctFile)[a] = LoadAccounts(call.pre_acct)[a]
               /\ a = call.account_id
                      => SameButBalance(LoadAccounts(acctFile)[a],
                                        LoadAccounts(call.pre_acct)[a])

(***************************************************************************)
(* Specification SpecInterleave: two save_transactions_by_account calls    *)
(* run side by side on one transactions.json. A call is three steps: the   *)
(* file is loaded, it is opened for writing (and so truncated), and the    *)
(* merged dictionary is dumped into it. No lock is taken in between.       *)
(***************************************************************************)
Callers == {1, 2}

\* The arguments of a call: an account and a batch of one transaction.
InterleaveArgs ==
    UNION { {[account_id |-> a, transactions |-> <<t>>] : t \in Universe(a)} :
              a \in StoredAccounts }

\* The file before the calls: not yet there, or holding the early transaction
\* of account 1234.
InterleaveFiles ==
    { AbsentFile,
      SaveTransactionsByAccount(AbsentFile, "1234",
          <<Txn("1234", date(Y1, 12, 5), <<"P", "A", "Y">>, Dec(0, 200, 0),
                Dec(0, 95000, -2))>>).file }

InitInterleave ==
    /\ txnFile \in InterleaveFiles
    /\ acctFile = AbsentFile
    /\ journalFile = <<>>
    /\ call = NoCall
    /\ inp \in [Callers -> InterleaveArgs]
    /\ out = [c \in Callers |-> [pc |-> "called", all_transactions |-> EmptyDict]]

\* all_transactions = _load_all_transactions(); json.load raises on a file
\* another call has opened for writing and not yet written.
LoadAll(c) ==
    /\ out[c].pc = "called"
    /\ out' = [out EXCEPT ![c] =
                  IF LoadRaises(txnFile)
                  THEN [pc |-> "JSONDecodeError", all_transactions |-> EmptyDict]
                  ELSE [pc |-> "loaded", all_transactions |-> LoadAllTransactions(txnFile)]]
    /\ UNCHANGED <<txnFile, acctFile, journalFile, call, inp>>

\* open(path, "w") of _save_all_transactions.
OpenForWriting(c) ==
    /\ out[c].pc = "loaded"
    /\ txnFile' = EmptyFile
    /\ out' = [out EXCEPT ![c].pc = "opened"]
    /\ UNCHANGED <<acctFile, journalFile, call, inp>>

\* json.dump of the dictionary loaded, with the merged list of the account.
DumpAll(c) ==
    /\ out[c].pc = "opened"
    /\ txnFile' = SaveInto(out[c].all_transactions, inp[c].account_id,
                           inp[c].transactions).file
    /\ out' = [out EXCEPT ![c].pc = "returned"]
    /\ UNCHANGED <<acctFile, journalFile, call, inp>>

NextInterleave == \E c \in Callers : LoadAll(c) \/ OpenForWriting(c) \/ DumpAll(c)

SpecInterleave == InitInterleave /\ [][NextInterleave]_vars

\* Both calls have returned.
BothReturned == \A c \in Callers : out[c].pc = "returned"

\* The store holds a transaction with the id of each transaction of the call.
Holds(file, args) ==
    /\ ~LoadRaises(file)
    /\ \A i \in 1..Len(args.transactions) :
           \E j \in 1..Len(LoadTransactionsByAccount(file, args.account_id)) :
               LoadTransactionsByAccount(file, args.account_id)[j].id
                   = args.transactions[i].id

\* C29: no lost update under interleaving: when two save_transactions_by_account
\* calls, for the same or for different accounts, interleave their load-all and
\* save-all steps, the final store contains the transactions added by both calls.
C29_NoLostUpdate == BothReturned => \A c \in Callers : Holds(txnFile, inp[c])

(***************************************************************************)
(* Specification SpecTools: the bookkeeping tools create_journal,          *)
(* update_journal and create_journal_entry called in any order.            *)
(*                                                                         *)
(* An omitted date argument is NoDate, an omitted description None, and    *)
(* the entries argument is <<>> when omitted and <<list>> when given.      *)
(***************************************************************************)
MaxCreates == 2

\* The same id for every journal.
RepeatedId(n) == "j1"

\* UniqueIdGenerator.generate_id() of the n-th journal built: an id no journal
\* built before has.
GeneratedId(n) == "j" \o ToString(n)

\* Account.from_dict raises ValueError when account_type is no AccountType value.
AccountFromDictRaises(d) == d.account_type \notin AccountTypeValues

\* The day the tools are called.
ToolDay == date(Y2, 1, 15)

\* The start and end date of create_journal, defaulted from date.today().
StartOr(start_date, today) == IF start_date = NoDate THEN today ELSE start_date

EndOr(end_date, today) ==
    IF end_date = NoDate
    THEN date(today.year, today.month, DaysInMonth(today.year, today.month))
    ELSE end_date

\* create_journal(account, description, start_date, end_date), the journal being
\* the n-th one built.
CreateJournal(file, account, description, start_date, end_date, today, n) ==
    IF AccountFromDictRaises(account) THEN [status |-> "ValueError", file |-> file]
    ELSE SaveJournal(file,
             Journal(AccountFromDict(account), description, StartOr(start_date, today),
                     EndOr(end_date, today), GeneratedId(n), <<>>))

\* find_journal_by_id(journal_id): the first journal with the id, None for none.
FindJournalById(file, journal_id) ==
    IF FirstJournal(LoadJournals(file), journal_id) = 0 THEN None
    ELSE LoadJournals(file)[FirstJournal(LoadJournals(file), journal_id)]

\* The journal found, with the fields given to the tool update_journal set.
WithFields(journal, description, start_date, end_date, entries) ==
    [journal EXCEPT
        !.description = IF description # None THEN description ELSE @,
        !.start_date = IF start_date # NoDate THEN start_date ELSE @,
        !.end_date = IF end_date # NoDate THEN end_date ELSE @,
        !.entries = IF entries # <<>>
                    THEN [i \in 1..Len(entries[1]) |-> JournalEntryFromDict(entries[1][i])]
                    ELSE @]

\* storage_update_journal(journal) and the journal returned.
StoreUpdated(file, journal) ==
    [status |-> UpdateJournal(file, journal).status,
     file |-> UpdateJournal(file, journal).file,
     journal |-> journal]

\* The tool update_journal(journal_id, description, start_date, end_date, entries):
\* what it raises, the file it leaves and the journal it wrote.
UpdateJournalTool(file, journal_id, description, start_date, end_date, entries) ==
    IF FirstJournal(LoadJournals(file), journal_id) = 0
    THEN [status |-> "ValueError", file |-> file, journal |-> None]
    ELSE StoreUpdated(file, WithFields(FindJournalById(file, journal_id),
                                       description, start_date, end_date, entries))

\* The tool create_journal_entry(journal_id, input_config): _perform_ocr raises
\* NotImplementedError before anything is stored.
CreateJournalEntry(file, journal_id, input_config) ==
    IF "input_local_path" \notin DOMAIN input_config
    THEN [status |-> "KeyError", file |-> file]
    ELSE IF FirstJournal(LoadJournals(file), journal_id) = 0
    THEN [status |-> "ValueError", file |-> file]
    ELSE [status |-> "NotImplementedError", file |-> file]

\* The account arguments of create_journal: one that create_account returned and
\* one with the account type the statement parser writes.
ToolAccounts ==
    { AccountToDict(JournalOwner),
      [AccountToDict(JournalOwner) EXCEPT !.account_type = "checking"] }

ToolIds == {GeneratedId(n) : n \in 1..MaxCreates} \cup {"nonexistent"}

ToolEntries ==
    << <<JournalEntryToDict(JournalEntry("e1", date(Y2, 1, 15), "equipment",
                                         "Office supplies", Dec(0, 5000, -2),
                                         Dec(0, 0, -2)))>> >>

\* The arguments of update_journal after journal_id: nothing given, the
\* description given, the end date and the entries given.
ToolUpdates ==
    { [description |-> None, end_date |-> NoDate, entries |-> <<>>],
      [description |-> "Updated", end_date |-> NoDate, entries |-> <<>>],
      [description |-> None, end_date |-> date(Y2, 3, 31), entries |-> ToolEntries] }

ToolConfigs == {[input_local_path |-> "receipt.png"], [path |-> "receipt.png"]}

\* out.created counts the create_journal calls that returned, out.written holds
\* for each id what the latest update_journal that returned wrote.
InitTools ==
    /\ txnFile = AbsentFile
    /\ acctFile = AbsentFile
    /\ journalFile = <<>>
    /\ call = NoCall
    /\ inp = <<>>
    /\ out = [created |-> 0, built |-> 0, written |-> EmptyDict]

CreateJournalCall ==
    /\ out.built < MaxCreates
    /\ \E account \in ToolAccounts, start_date \in {NoDate, date(Y2, 1, 1)} :
         \E done \in {CreateJournal(journalFile, account, "January journal", start_date,
                                     NoDate, ToolDay, out.built + 1)} :
            /\ journalFile' = done.file
            /\ call' = [NoCall EXCEPT !.op = "create_journal", !.status = done.status]
            /\ out' = IF done.status = "ok"
                      THEN [out EXCEPT !.created = @ + 1, !.built = @ + 1]
                      ELSE out
    /\ UNCHANGED <<txnFile, acctFile, inp>>

UpdateJournalToolCall ==
    /\ \E journal_id \in ToolIds, given \in ToolUpdates :
         \E done \in {UpdateJournalTool(journalFile, journal_id, given.description,
                                         NoDate, given.end_date, given.entries)} :
            /\ journalFile' = done.file
            /\ call' = [NoCall EXCEPT !.op = "update_journal", !.status = done.status]
            /\ out' = IF done.status = "ok"
                      THEN [out EXCEPT !.written = Put(@, journal_id, done.journal)]
                      ELSE out
    /\ UNCHANGED <<txnFile, acctFile, inp>>

CreateJournalEntryCall ==
    /\ \E journal_id \in ToolIds, input_config \in ToolConfigs :
         \E done \in {CreateJournalEntry(journalFile, journal_id, input_config)} :
            /\ journalFile' = done.file
            /\ call' = [NoCall EXCEPT !.op = "create_journal_entry", !.status = done.status]
    /\ UNCHANGED <<txnFile, acctFile, inp, out>>

NextTools == CreateJournalCall \/ UpdateJournalToolCall \/ CreateJournalEntryCall

SpecTools == InitTools /\ [][NextTools]_vars

\* C30: with every create_journal call getting a fresh generated journal_id, after
\* any sequence of create_journal, update_journal and create_journal_entry tool
\* calls no two stored journals share a journal_id, the number of stored journals
\* equals the number of successful create_journal calls, and find_journal_by_id
\* returns the record that the latest update_journal for that id wrote.
C30_JournalStore ==
    /\ \A i, k \in 1..Len(journalFile) :
           i # k => LoadJournals(journalFile)[i].journal_id
                       # LoadJournals(journalFile)[k].journal_id
    /\ Len(LoadJournals(journalFile)) = out.created
    /\ \A journal_id \in DOMAIN out.written :
           FindJournalById(journalFile, journal_id) = out.written[journal_id]

\* Two journals were created, both were updated, to different records, and a
\* create_journal_entry call for a stored journal has been made.
C30_Witness ==
    /\ out.created = MaxCreates
    /\ Cardinality(DOMAIN out.written) = MaxCreates
    /\ \E a, b \in DOMAIN out.written :
           /\ out.written[a].description # out.written[b].description
           /\ out.written[a].entries # <<>>
    /\ call.op = "create_journal_entry"
    /\ call.status = "NotImplementedError"

====
